---- MODULE Spec2Model ----
(***************************************************************************)
(* Model of the brother_ql_app core: the configuration store               *)
(* (src/services/settings_service.py) and the keep-alive watchdog          *)
(* (src/services/printer_service.py).                                      *)
(***************************************************************************)
EXTENDS Integers, Sequences, FiniteSets, TLC

(***************************************************************************)
(* JSON values.  Every value carries the same fields so that values of     *)
(* different Python types can be compared.                                 *)
(***************************************************************************)
EmptyMap == [k \in {} |-> 0]

Null == [t |-> "null", n |-> 0, s |-> "", l |-> <<>>, m |-> EmptyMap]

Str(x) == [t |-> "str", n |-> 0, s |-> x, l |-> <<>>, m |-> EmptyMap]

Num(x) == [t |-> "num", n |-> x, s |-> "", l |-> <<>>, m |-> EmptyMap]

Bool(x) == [t |-> "bool", n |-> IF x THEN 1 ELSE 0, s |-> "", l |-> <<>>, m |-> EmptyMap]

(* float("nan"): json.load reads the literal NaN and json.dump writes it. *)
NaN == [t |-> "nan", n |-> 0, s |-> "", l |-> <<>>, m |-> EmptyMap]

List(x) == [t |-> "list", n |-> 0, s |-> "", l |-> x, m |-> EmptyMap]

Dict(x) == [t |-> "dict", n |-> 0, s |-> "", l |-> <<>>, m |-> x]

(* Python truthiness of a value: bool(x). *)
Truthy(v) ==
    CASE v.t = "null" -> FALSE
      [] v.t = "str"  -> v.s # ""
      [] v.t = "num"  -> v.n # 0
      [] v.t = "bool" -> v.n # 0
      [] v.t = "nan"  -> TRUE
      [] v.t = "list" -> v.l # <<>>
      [] v.t = "dict" -> DOMAIN v.m # {}

(* str.strip() of the modelled strings is empty exactly for these. *)
IsBlank(x) == x \in {"", " "}

(* brother_ql.backends.guess_backend over the modelled addresses. *)
GuessBackend(uri) ==
    CASE uri \in {"tcp://192.168.1.100", "tcp://10.0.0.5:9100"} -> "network"
      [] uri \in {"usb://0x04f9:0x209b"} -> "pyusb"
      [] uri \in {"file:///dev/usb/lp0"} -> "linux_kernel"
      [] OTHER -> "ValueError"

DefaultProfile ==
    [id |-> Str("default"), name |-> Str("Default Printer"),
     printer_uri |-> Str("tcp://192.168.1.100"),
     printer_model |-> Str("QL-800"), label_size |-> Str("62")]

(* Defaults whose threshold is outside the range validation accepts. *)
DefaultsOutOfRange ==
    [printer_uri |-> Str("tcp://192.168.1.100"),
     printer_model |-> Str("QL-800"),
     label_size |-> Str("62"),
     font_size |-> Num(50),
     alignment |-> Str("left"),
     rotate |-> Num(0),
     threshold |-> Num(150),
     dither |-> Bool(FALSE),
     compress |-> Bool(FALSE),
     red |-> Bool(FALSE),
     keep_alive_enabled |-> Bool(FALSE),
     keep_alive_interval |-> Num(60),
     printers |-> List(<<Dict(DefaultProfile)>>)]

DEFAULT_SETTINGS ==
    [printer_uri |-> Str("tcp://192.168.1.100"),
     printer_model |-> Str("QL-800"),
     label_size |-> Str("62"),
     font_size |-> Num(50),
     alignment |-> Str("left"),
     rotate |-> Num(0),
     threshold |-> Num(70),
     dither |-> Bool(FALSE),
     compress |-> Bool(FALSE),
     red |-> Bool(FALSE),
     keep_alive_enabled |-> Bool(FALSE),
     keep_alive_interval |-> Num(60),
     printers |-> List(<<Dict(DefaultProfile)>>)]

(* dict.update: b's entries over a's. *)
Merge(a, b) ==
    [k \in (DOMAIN a) \cup (DOMAIN b) |-> IF k \in DOMAIN b THEN b[k] ELSE a[k]]

(***************************************************************************)
(* SettingsService._validate_settings: TRUE iff no ValueError is raised.   *)
(***************************************************************************)
StrFields == {"printer_uri", "printer_model", "label_size", "alignment"}

NumFields == {"font_size", "rotate", "threshold", "keep_alive_interval"}

BoolFields == {"dither", "compress", "red", "keep_alive_enabled"}

(* isinstance(value, expected_type); bool is a subclass of int. *)
TypeOk(field, v) ==
    CASE field \in StrFields  -> v.t = "str"
      [] field \in NumFields  -> v.t \in {"num", "bool", "nan"}
      [] field \in BoolFields -> v.t = "bool"
      [] field = "printers"   -> v.t = "list"
      [] OTHER -> TRUE

TypeChecksPass(d) == \A field \in DOMAIN d : TypeOk(field, d[field])

required_fields == {"printer_uri", "printer_model", "label_size"}

RequiredFieldsPass(d) ==
    \A field \in required_fields :
        /\ field \in DOMAIN d
        /\ ~(d[field].t = "str" /\ IsBlank(d[field].s))

AlignmentPass(d) ==
    "alignment" \in DOMAIN d => d["alignment"].s \in {"left", "center", "right"}

RotatePass(d) ==
    "rotate" \in DOMAIN d =>
        (d["rotate"].t # "nan" /\ d["rotate"].n \in {0, 90, 180, 270})

ThresholdPass(d) ==
    "threshold" \in DOMAIN d =>
        /\ d["threshold"].t # "nan"
        /\ 0 <= d["threshold"].n
        /\ d["threshold"].n <= 100

(* Every comparison with NaN is false, "interval < 10" included. *)
KeepAlivePass(d) ==
    ("keep_alive_enabled" \in DOMAIN d /\ Truthy(d["keep_alive_enabled"])) =>
        /\ "keep_alive_interval" \in DOMAIN d
        /\ d["keep_alive_interval"].t # "null"
        /\ ~(d["keep_alive_interval"].t # "nan" /\ d["keep_alive_interval"].n < 10)
        /\ GuessBackend(d["printer_uri"].s) = "network"

printer_required_fields == {"id", "printer_uri", "printer_model", "label_size"}

PrintersPass(d) ==
    "printers" \in DOMAIN d =>
        /\ d["printers"].l # <<>>
        /\ \A i \in 1..Len(d["printers"].l) :
              LET printer == d["printers"].l[i] IN
              /\ printer.t = "dict"
              /\ \A field \in printer_required_fields :
                    /\ field \in DOMAIN printer.m
                    /\ ~(printer.m[field].t = "str" /\ IsBlank(printer.m[field].s))

ValidateSettingsNoThreshold(d) ==
    /\ TypeChecksPass(d)
    /\ RequiredFieldsPass(d)
    /\ AlignmentPass(d)
    /\ RotatePass(d)
    /\ KeepAlivePass(d)
    /\ PrintersPass(d)

ValidateSettingsNoRequired(d) ==
    /\ TypeChecksPass(d)
    /\ AlignmentPass(d)
    /\ RotatePass(d)
    /\ ThresholdPass(d)
    /\ KeepAlivePass(d)
    /\ PrintersPass(d)

ValidateSettings(d) ==
    /\ TypeChecksPass(d)
    /\ RequiredFieldsPass(d)
    /\ AlignmentPass(d)
    /\ RotatePass(d)
    /\ ThresholdPass(d)
    /\ KeepAlivePass(d)
    /\ PrintersPass(d)

(***************************************************************************)
(* json.dump / json.load.  A file is a sequence of tokens; a document is   *)
(* an opening brace, one token per key/value pair, and a closing brace.    *)
(***************************************************************************)
KeyOrder ==
    <<"printer_uri", "printer_model", "label_size", "font_size", "alignment",
      "rotate", "threshold", "dither", "compress", "red",
      "keep_alive_enabled", "keep_alive_interval", "printers", "note">>

Tok(c, k, v) == [c |-> c, k |-> k, v |-> v]

OpenTok == Tok("open", "", Null)

CloseTok == Tok("close", "", Null)

NulTok == Tok("nul", "", Null)

ArrayTok == Tok("array", "", Null)

JsonDump(d) ==
    LET keys == SelectSeq(KeyOrder, LAMBDA k : k \in DOMAIN d)
    IN  <<OpenTok>> \o [i \in 1..Len(keys) |-> Tok("pair", keys[i], d[keys[i]])]
                    \o <<CloseTok>>

(* json.load: ok = no JSONDecodeError; dict = the document is a mapping. *)
JsonLoad(data) ==
    LET n == Len(data)
        isObject == /\ n >= 2
                    /\ data[1].c = "open"
                    /\ data[n].c = "close"
                    /\ \A i \in 2..(n - 1) : data[i].c = "pair"
        keys == {data[i].k : i \in 2..(n - 1)}
        last(k) == CHOOSE i \in 2..(n - 1) :
                      /\ data[i].k = k
                      /\ \A j \in 2..(n - 1) : data[j].k = k => j <= i
    IN  IF isObject
        THEN [ok |-> TRUE, dict |-> TRUE, v |-> [k \in keys |-> data[last(k)].v]]
        ELSE IF n = 1 /\ data[1].c = "array"
        THEN [ok |-> TRUE, dict |-> FALSE, v |-> EmptyMap]
        ELSE [ok |-> FALSE, dict |-> FALSE, v |-> EmptyMap]

(***************************************************************************)
(* SettingsService._load_settings on a file that does (exists) or does not *)
(* exist; every exception falls back to the defaults.                      *)
(***************************************************************************)
LoadSettingsNoDefaults(f) ==
    IF f.exists /\ JsonLoad(f.data).ok /\ JsonLoad(f.data).dict
    THEN JsonLoad(f.data).v
    ELSE DEFAULT_SETTINGS

LoadSettings(f) ==
    IF ~f.exists THEN DEFAULT_SETTINGS
    ELSE LET loaded_settings == JsonLoad(f.data) IN
         IF ~loaded_settings.ok THEN DEFAULT_SETTINGS
         ELSE IF ~loaded_settings.dict THEN DEFAULT_SETTINGS
         ELSE Merge(DEFAULT_SETTINGS, loaded_settings.v)

(***************************************************************************)
(* Bounds of the model.                                                    *)
(***************************************************************************)
(* Tokens handed to the operating system by one write() of the buffered    *)
(* file object.                                                            *)
ChunkLen == 8

(* Calls one client makes to the store when it is alone, and when two      *)
(* clients run concurrently.                                               *)
MaxCalls == 3

MaxConcCalls == 2

(* Text runs and tags in the text of a label. *)
MaxTokens == 3

(* Calls of start_keep_alive in one run, and the largest value the         *)
(* consecutive-failure counter is followed to.                             *)
MaxStarts == 2

MaxFailures == 4

(* Consecutive failures at the start of a run that follows a long outage. *)
LongOutage == 1022

(***************************************************************************)
(* State.                                                                  *)
(***************************************************************************)
Writers == {1, 2}

SettingsFile == "settings.json"

TempFilePathDirect == SettingsFile

(* temp_file_path = self.settings_file + ".tmp" *)
TempFilePath == "settings.json.tmp"

Paths == {SettingsFile, "settings.json.tmp"}

Inodes == 1..(Cardinality(Paths) + Cardinality(Writers))

VARIABLES
    fs,       \* path -> inode number, 0 when the path does not exist
    ino,      \* inode number -> file content (sequence of tokens)
    pc,       \* writer -> position inside save_settings
    op,       \* writer -> operation of the current or last call
    arg,      \* writer -> settings_to_save / settings_update of the call
    base,     \* writer -> current_settings_from_file of update_settings
    doc,      \* writer -> settings_to_save inside save_settings
    fd,       \* writer -> inode of the open temporary file, 0 when closed
    off,      \* writer -> file offset of the open temporary file
    result,   \* writer -> return value of the last call
    loaded,   \* writer -> value returned by the last get_settings
    before,   \* writer -> destination file when the call was entered
    fault,    \* writer -> an I/O error was raised during the call
    rm_err,   \* writer -> os.remove of the temporary file raised in the cleanup
    calls,    \* writer -> number of calls made so far
    keep_alive_thread,      \* PrinterService.keep_alive_thread, 0 for None
    keep_alive_stop_event,  \* PrinterService.keep_alive_stop_event (event id)
    evset,    \* event id -> the event's flag
    wpc,      \* worker -> position inside _keep_alive_worker
    wev,      \* worker -> stop_event argument of the worker
    wtarget,  \* worker -> printer_uri, printer_model, interval arguments
    cf,       \* worker -> consecutive_failures
    gap,      \* worker -> seconds waited since the last tick ended
    tick,     \* worker -> strategies tried in the current tick and its outcome
    log_level, \* worker -> severity of the record logged for the failed tick
    rpc,      \* request thread -> position inside start/stop_keep_alive
    rop,      \* request thread -> "start" or "stop"
    rloc,     \* request thread -> local variables of start_keep_alive
    rjoin,    \* request thread -> worker it is joining, 0 for none
    rret,     \* request thread -> "success" value of the last call
    lpc,           \* position inside _create_text_label
    html_text,     \* the text argument: a sequence of text runs and tags
    alignment,     \* settings.get("alignment", "left")
    lines,         \* the lines of text
    line_metrics,  \* one (line, line_height, line_width) per measured line
    total_height,  \* the running height
    image_height,  \* height of the image created, 0 before Image.new
    y,             \* vertical offset of the next line drawn
    drawn,         \* the draw.text calls made: (x, y, line_text)
    probe,         \* the _tcp_ping call under way: its locals and the connections attempted
    qr,            \* the _create_qr_code call under way: its arguments and locals
    job            \* the print_text / print_qr_code call under way

storeVars == <<fs, ino, pc, op, arg, base, doc, fd, off, result, loaded, before, fault,
               rm_err, calls>>

wdVars == <<keep_alive_thread, keep_alive_stop_event, evset, wpc, wev, wtarget,
            cf, gap, tick, log_level, rpc, rop, rloc, rjoin, rret>>

labelVars == <<lpc, html_text, alignment, lines, line_metrics, total_height,
               image_height, y, drawn>>

callVars == <<probe, qr, job>>

vars == <<fs, ino, pc, op, arg, base, doc, fd, off, result, loaded, before, fault, rm_err, calls,
          keep_alive_thread, keep_alive_stop_event, evset, wpc, wev, wtarget,
          cf, gap, tick, log_level, rpc, rop, rloc, rjoin, rret,
          lpc, html_text, alignment, lines, line_metrics, total_height,
          image_height, y, drawn, probe, qr, job>>

Min(a, b) == IF a < b THEN a ELSE b

Max(a, b) == IF a > b THEN a ELSE b

(* The file at a path as a reader sees it. *)
FileAt(f, i, path) ==
    [exists |-> f[path] # 0,
     data   |-> IF f[path] # 0 THEN i[f[path]] ELSE <<>>]

DiskFile == FileAt(fs, ino, SettingsFile)

(* pwrite semantics: chunk replaces the bytes from offset o on, a gap      *)
(* left by a truncation is filled with NUL bytes.                          *)
WriteAt(data, o, chunk) ==
    LET n == Max(Len(data), o + Len(chunk))
    IN  [j \in 1..n |->
            IF j > o /\ j <= o + Len(chunk) THEN chunk[j - o]
            ELSE IF j <= Len(data) THEN data[j]
            ELSE NulTok]

(* An inode is freed when no path and no descriptor refers to it. *)
Referenced(f, d) == {f[p] : p \in Paths} \cup {d[w] : w \in Writers}

Reclaim(i, f, d) ==
    [x \in Inodes |-> IF x \in Referenced(f, d) THEN i[x] ELSE <<>>]

FreeInode == CHOOSE x \in Inodes :
                /\ x \notin Referenced(fs, fd)
                /\ \A z \in Inodes : z \notin Referenced(fs, fd) => x <= z

(***************************************************************************)
(* Files found at start-up.                                                *)
(***************************************************************************)
MinimalSettings ==
    [printer_uri |-> Str("tcp://10.0.0.5:9100"), printer_model |-> Str("QL-820NWB"),
     label_size |-> Str("29"), font_size |-> Num(30)]

InitialFiles ==
    { [exists |-> FALSE, data |-> <<>>],
      [exists |-> TRUE,  data |-> <<>>],
      [exists |-> TRUE,  data |-> SubSeq(JsonDump(DEFAULT_SETTINGS), 1, 4)],
      [exists |-> TRUE,  data |-> <<ArrayTok>>],
      [exists |-> TRUE,  data |-> JsonDump(MinimalSettings)],
      [exists |-> TRUE,  data |-> JsonDump(DEFAULT_SETTINGS)] }

Workers == 1..MaxStarts

Events == 0..MaxStarts

Requests == {1}

NoTick == [tried |-> <<>>, outcome |-> "none"]

NoTarget == [printer_uri |-> "", printer_model |-> "", interval |-> 0, is_float |-> FALSE]

NoLocals == [settings |-> EmptyMap, printer_uri |-> "", printer_model |-> "", interval |-> 0,
             is_float |-> FALSE]

(* PrinterService.__init__: no thread, a fresh unset event. *)
WatchdogInit ==
    /\ keep_alive_thread = 0
    /\ keep_alive_stop_event = 0
    /\ evset = [e \in Events |-> IF e = 0 THEN "clear" ELSE "unborn"]
    /\ wpc = [w \in Workers |-> "none"]
    /\ wev = [w \in Workers |-> 0]
    /\ wtarget = [w \in Workers |-> NoTarget]
    /\ cf = [w \in Workers |-> 0]
    /\ gap = [w \in Workers |-> 0]
    /\ tick = [w \in Workers |-> NoTick]
    /\ log_level = [w \in Workers |-> "none"]
    /\ rpc = [r \in Requests |-> "idle"]
    /\ rop = [r \in Requests |-> "none"]
    /\ rloc = [r \in Requests |-> NoLocals]
    /\ rjoin = [r \in Requests |-> 0]
    /\ rret = [r \in Requests |-> "none"]

StoreFilesInit(files) ==
    /\ \E f \in files :
          /\ fs = [p \in Paths |-> IF p = SettingsFile /\ f.exists THEN 1 ELSE 0]
          /\ ino = [x \in Inodes |-> IF x = 1 THEN f.data ELSE <<>>]
    /\ pc = [w \in Writers |-> "idle"]
    /\ op = [w \in Writers |-> "none"]
    /\ arg = [w \in Writers |-> EmptyMap]
    /\ base = [w \in Writers |-> EmptyMap]
    /\ doc = [w \in Writers |-> EmptyMap]
    /\ fd = [w \in Writers |-> 0]
    /\ off = [w \in Writers |-> 0]
    /\ result = [w \in Writers |-> "none"]
    /\ loaded = [w \in Writers |-> EmptyMap]
    /\ before = [w \in Writers |-> [exists |-> FALSE, data |-> <<>>]]
    /\ fault = [w \in Writers |-> FALSE]
    /\ rm_err = [w \in Writers |-> FALSE]
    /\ calls = [w \in Writers |-> 0]

(* No raw connection probe is under way. *)
NoProbe == [pc |-> "idle"]

(* No QR code image is being created. *)
NoQr == [pc |-> "idle"]

(* No print operation is under way. *)
NoJob == [pc |-> "idle"]

CallsIdle == probe = NoProbe /\ qr = NoQr /\ job = NoJob

(* No text label is being created. *)
LabelIdle ==
    /\ lpc = "idle"
    /\ html_text = <<>>
    /\ alignment = "left"
    /\ lines = <<>>
    /\ line_metrics = <<>>
    /\ total_height = 0
    /\ image_height = 0
    /\ y = 0
    /\ drawn = <<>>

InitWith(files) == WatchdogInit /\ StoreFilesInit(files) /\ LabelIdle /\ CallsIdle

StoreInit == InitWith(InitialFiles)

(***************************************************************************)
(* SettingsService.save_settings, one action per step.                     *)
(***************************************************************************)
(* Entry without the validation of settings_to_save. *)
EnterSaveNoValidation(w, d) ==
    /\ doc' = [doc EXCEPT ![w] = d]
    /\ before' = [before EXCEPT ![w] = DiskFile]
    /\ fault' = [fault EXCEPT ![w] = FALSE]
    /\ rm_err' = [rm_err EXCEPT ![w] = FALSE]
    /\ pc' = [pc EXCEPT ![w] = "open"]
    /\ result' = [result EXCEPT ![w] = "none"]
    /\ loaded' = [loaded EXCEPT ![w] = EmptyMap]
    /\ calls' = [calls EXCEPT ![w] = calls[w] + 1]
    /\ UNCHANGED <<fs, ino, fd, off>>
    /\ UNCHANGED <<wdVars, labelVars, callVars>>

(* Steps 1: entry and validation of settings_to_save. *)
EnterSave(w, d) ==
    /\ doc' = [doc EXCEPT ![w] = d]
    /\ before' = [before EXCEPT ![w] = DiskFile]
    /\ fault' = [fault EXCEPT ![w] = FALSE]
    /\ rm_err' = [rm_err EXCEPT ![w] = FALSE]
    /\ IF ValidateSettings(d)
       THEN /\ pc' = [pc EXCEPT ![w] = "open"]
            /\ result' = [result EXCEPT ![w] = "none"]
       ELSE /\ pc' = [pc EXCEPT ![w] = "idle"]
            /\ result' = [result EXCEPT ![w] = "fail"]
    /\ loaded' = [loaded EXCEPT ![w] = EmptyMap]
    /\ calls' = [calls EXCEPT ![w] = calls[w] + 1]
    /\ UNCHANGED <<fs, ino, fd, off>>
    /\ UNCHANGED <<wdVars, labelVars, callVars>>

SaveSettings(w, d) ==
    /\ pc[w] = "idle"
    /\ op' = [op EXCEPT ![w] = "save"]
    /\ arg' = [arg EXCEPT ![w] = d]
    /\ base' = [base EXCEPT ![w] = EmptyMap]
    /\ EnterSave(w, d)

UpdateSettingsOverDefaults(w, settings_update) ==
    /\ pc[w] = "idle"
    /\ op' = [op EXCEPT ![w] = "update"]
    /\ arg' = [arg EXCEPT ![w] = settings_update]
    /\ base' = [base EXCEPT ![w] = LoadSettings(DiskFile)]
    /\ EnterSave(w, Merge(DEFAULT_SETTINGS, settings_update))

(* SettingsService.update_settings: load, merge, then save_settings. *)
UpdateSettings(w, settings_update) ==
    /\ pc[w] = "idle"
    /\ LET current_settings_from_file == LoadSettings(DiskFile)
           merged_settings == Merge(current_settings_from_file, settings_update)
       IN  /\ op' = [op EXCEPT ![w] = "update"]
           /\ arg' = [arg EXCEPT ![w] = settings_update]
           /\ base' = [base EXCEPT ![w] = current_settings_from_file]
           /\ EnterSave(w, merged_settings)

(* After a save that succeeded, the caller saves what get_settings        *)
(* returns: save_settings(get_settings()).  base keeps the loaded value.  *)
ResaveSettings(w) ==
    /\ pc[w] = "idle"
    /\ op[w] \in {"save", "update"}
    /\ result[w] = "ok"
    /\ LET current_settings == LoadSettings(DiskFile)
       IN  /\ op' = [op EXCEPT ![w] = "save"]
           /\ arg' = [arg EXCEPT ![w] = current_settings]
           /\ base' = [base EXCEPT ![w] = current_settings]
           /\ EnterSave(w, current_settings)

(***************************************************************************)
(* api/settings_controller.py: _validate_settings, TRUE iff no             *)
(* ValidationError is raised.  int() and float() accept numbers and        *)
(* numerals; among the modelled strings the numerals are "62" and "29".    *)
(***************************************************************************)
Numerals == {"62", "29"}

ControllerRequiredPass(settings) ==
    \A field \in {"printer_uri", "printer_model", "label_size"} : field \in DOMAIN settings

ControllerAlignmentPass(settings) ==
    "alignment" \in DOMAIN settings =>
        /\ settings["alignment"].t = "str"
        /\ settings["alignment"].s \in {"left", "center", "right"}

(* int(settings["rotate"]) in [0, 90, 180, 270]; int("62") is 62. *)
ControllerRotatePass(settings) ==
    "rotate" \in DOMAIN settings =>
        /\ settings["rotate"].t \in {"num", "bool"}
        /\ settings["rotate"].n \in {0, 90, 180, 270}

(* float(settings["threshold"]) neither below 0 nor above 100; both        *)
(* comparisons are false for NaN.                                          *)
ControllerThresholdPass(settings) ==
    "threshold" \in DOMAIN settings =>
        LET v == settings["threshold"]
        IN  \/ v.t \in {"num", "bool"} /\ ~(v.n < 0 \/ v.n > 100)
            \/ v.t = "nan"
            \/ v.t = "str" /\ v.s \in Numerals

ControllerPrintersPass(settings) ==
    ("printers" \in DOMAIN settings /\ settings["printers"].t = "list") =>
        \A i \in 1..Len(settings["printers"].l) :
            LET printer == settings["printers"].l[i]
            IN  /\ printer.t = "dict"
                /\ \A field \in {"id", "printer_uri", "printer_model", "label_size"} :
                      field \in DOMAIN printer.m

ControllerValidate(settings) ==
    /\ ControllerRequiredPass(settings)
    /\ ControllerAlignmentPass(settings)
    /\ ControllerRotatePass(settings)
    /\ ControllerThresholdPass(settings)
    /\ ControllerPrintersPass(settings)

(* api/settings_controller.py: update_settings.  A request that is empty   *)
(* or fails the controller's validation ends in a ValidationError; the     *)
(* others go to SettingsService.update_settings, whose False becomes a     *)
(* ConfigurationError.                                                     *)
ApiUpdateSettings(w, settings) ==
    /\ pc[w] = "idle"
    /\ op' = [op EXCEPT ![w] = "api_update"]
    /\ arg' = [arg EXCEPT ![w] = settings]
    /\ IF settings = EmptyMap \/ ~ControllerValidate(settings)
       THEN /\ result' = [result EXCEPT ![w] = "ValidationError"]
            /\ base' = [base EXCEPT ![w] = EmptyMap]
            /\ doc' = [doc EXCEPT ![w] = EmptyMap]
            /\ before' = [before EXCEPT ![w] = DiskFile]
            /\ fault' = [fault EXCEPT ![w] = FALSE]
            /\ rm_err' = [rm_err EXCEPT ![w] = FALSE]
            /\ loaded' = [loaded EXCEPT ![w] = EmptyMap]
            /\ calls' = [calls EXCEPT ![w] = calls[w] + 1]
            /\ UNCHANGED <<fs, ino, pc, fd, off>>
            /\ UNCHANGED <<wdVars, labelVars, callVars>>
       ELSE LET current_settings_from_file == LoadSettings(DiskFile)
                merged_settings == Merge(current_settings_from_file, settings)
            IN  /\ base' = [base EXCEPT ![w] = current_settings_from_file]
                /\ EnterSave(w, merged_settings)

(* The response of the controller to a request that has returned. *)
ApiResponse(w) ==
    CASE result[w] = "ok" -> "success"
      [] result[w] = "fail" -> "ConfigurationError"
      [] OTHER -> result[w]

(* Step 3: open(temp_file_path, 'w') creates or truncates the file. *)
OpenTemp(w) ==
    /\ pc[w] = "open"
    /\ LET i == IF fs[TempFilePath] # 0 THEN fs[TempFilePath] ELSE FreeInode
       IN  /\ fs' = [fs EXCEPT ![TempFilePath] = i]
           /\ ino' = [ino EXCEPT ![i] = <<>>]
           /\ fd' = [fd EXCEPT ![w] = i]
    /\ off' = [off EXCEPT ![w] = 0]
    /\ pc' = [pc EXCEPT ![w] = "write"]
    /\ UNCHANGED <<op, arg, base, doc, result, loaded, before, fault, rm_err, calls>>
    /\ UNCHANGED <<wdVars, labelVars, callVars>>

(* json.dump and f.flush(): the buffered text goes out chunk by chunk. *)
WriteChunk(w) ==
    /\ pc[w] = "write"
    /\ LET data == JsonDump(doc[w])
           chunk == SubSeq(data, off[w] + 1, Min(off[w] + ChunkLen, Len(data)))
       IN  /\ ino' = [ino EXCEPT ![fd[w]] = WriteAt(ino[fd[w]], off[w], chunk)]
           /\ off' = [off EXCEPT ![w] = off[w] + Len(chunk)]
           /\ pc' = [pc EXCEPT ![w] =
                        IF off[w] + Len(chunk) = Len(data) THEN "fsync" ELSE "write"]
    /\ UNCHANGED <<fs, op, arg, base, doc, fd, result, loaded, before, fault, rm_err, calls>>
    /\ UNCHANGED <<wdVars, labelVars, callVars>>

(* os.fsync and the end of the with block, which closes the file. *)
FsyncClose(w) ==
    /\ pc[w] = "fsync"
    /\ fd' = [fd EXCEPT ![w] = 0]
    /\ ino' = Reclaim(ino, fs, fd')
    /\ off' = [off EXCEPT ![w] = 0]
    /\ pc' = [pc EXCEPT ![w] = "replace"]
    /\ UNCHANGED <<fs, op, arg, base, doc, result, loaded, before, fault, rm_err, calls>>
    /\ UNCHANGED <<wdVars, labelVars, callVars>>

(* Step 4: os.replace(temp_file_path, self.settings_file). *)
ReplaceFile(w) ==
    /\ pc[w] = "replace"
    /\ IF fs[TempFilePath] = 0
       THEN \* FileNotFoundError, an OSError
            /\ pc' = [pc EXCEPT ![w] = "cleanup"]
            /\ UNCHANGED <<fs, ino, result>>
       ELSE /\ fs' = [p \in Paths |->
                        IF p = SettingsFile THEN fs[TempFilePath]
                        ELSE IF p = TempFilePath THEN 0 ELSE fs[p]]
            /\ ino' = Reclaim(ino, fs', fd)
            /\ pc' = [pc EXCEPT ![w] = "idle"]
            /\ result' = [result EXCEPT ![w] = "ok"]
    /\ UNCHANGED <<op, arg, base, doc, fd, off, loaded, before, fault, rm_err, calls>>
    /\ UNCHANGED <<wdVars, labelVars, callVars>>

(* An IOError/OSError raised by open, write, flush, fsync or replace. *)
IOFailure(w) ==
    /\ pc[w] \in {"open", "write", "fsync", "replace"}
    /\ fault' = [fault EXCEPT ![w] = TRUE]
    /\ rm_err' = [rm_err EXCEPT ![w] = FALSE]
    /\ fd' = [fd EXCEPT ![w] = 0]
    /\ ino' = Reclaim(ino, fs, fd')
    /\ off' = [off EXCEPT ![w] = 0]
    /\ pc' = [pc EXCEPT ![w] = "cleanup"]
    /\ UNCHANGED <<fs, op, arg, base, doc, result, loaded, before, calls>>
    /\ UNCHANGED <<wdVars, labelVars, callVars>>

CleanupTempSkipsRemove(w) ==
    /\ pc[w] = "cleanup"
    /\ pc' = [pc EXCEPT ![w] = "idle"]
    /\ result' = [result EXCEPT ![w] = "fail"]
    /\ UNCHANGED <<fs, ino, op, arg, base, doc, fd, off, loaded, before, fault, rm_err, calls>>
    /\ UNCHANGED <<wdVars, labelVars, callVars>>

(* The except branches: if the temporary file exists, os.remove it (a      *)
(* failure of the removal is logged and swallowed); return False.  The     *)
(* removal can fail only in a call that already met an I/O error.          *)
CleanupTemp(w) ==
    /\ pc[w] = "cleanup"
    /\ \E remove_fails \in BOOLEAN :
          /\ remove_fails => (fault[w] /\ fs[TempFilePath] # 0)
          /\ fs' = IF remove_fails THEN fs ELSE [fs EXCEPT ![TempFilePath] = 0]
          /\ rm_err' = [rm_err EXCEPT ![w] = remove_fails]
    /\ ino' = Reclaim(ino, fs', fd)
    /\ pc' = [pc EXCEPT ![w] = "idle"]
    /\ result' = [result EXCEPT ![w] = "fail"]
    /\ UNCHANGED <<op, arg, base, doc, fd, off, loaded, before, fault, calls>>
    /\ UNCHANGED <<wdVars, labelVars, callVars>>

(* SettingsService.get_settings. *)
GetSettingsCached(w) ==
    /\ pc[w] = "idle"
    /\ op' = [op EXCEPT ![w] = "load"]
    /\ loaded' = [loaded EXCEPT ![w] = IF op[w] = "none" THEN LoadSettings(DiskFile)
                                    ELSE LoadSettings(before[w])]
    /\ before' = [before EXCEPT ![w] = DiskFile]
    /\ result' = [result EXCEPT ![w] = "ok"]
    /\ arg' = [arg EXCEPT ![w] = EmptyMap]
    /\ base' = [base EXCEPT ![w] = EmptyMap]
    /\ doc' = [doc EXCEPT ![w] = EmptyMap]
    /\ fault' = [fault EXCEPT ![w] = FALSE]
    /\ rm_err' = [rm_err EXCEPT ![w] = FALSE]
    /\ calls' = [calls EXCEPT ![w] = calls[w] + 1]
    /\ UNCHANGED <<fs, ino, pc, fd, off>>
    /\ UNCHANGED <<wdVars, labelVars, callVars>>

GetSettings(w) ==
    /\ pc[w] = "idle"
    /\ op' = [op EXCEPT ![w] = "load"]
    /\ loaded' = [loaded EXCEPT ![w] = LoadSettings(DiskFile)]
    /\ before' = [before EXCEPT ![w] = DiskFile]
    /\ result' = [result EXCEPT ![w] = "ok"]
    /\ arg' = [arg EXCEPT ![w] = EmptyMap]
    /\ base' = [base EXCEPT ![w] = EmptyMap]
    /\ doc' = [doc EXCEPT ![w] = EmptyMap]
    /\ fault' = [fault EXCEPT ![w] = FALSE]
    /\ rm_err' = [rm_err EXCEPT ![w] = FALSE]
    /\ calls' = [calls EXCEPT ![w] = calls[w] + 1]
    /\ UNCHANGED <<fs, ino, pc, fd, off>>
    /\ UNCHANGED <<wdVars, labelVars, callVars>>

(* The process is killed in the middle of save_settings. *)
Crash(w) ==
    /\ pc[w] \in {"open", "write", "fsync", "replace", "cleanup"}
    /\ pc' = [pc EXCEPT ![w] = "crashed"]
    /\ fd' = [fd EXCEPT ![w] = 0]
    /\ ino' = Reclaim(ino, fs, fd')
    /\ off' = [off EXCEPT ![w] = 0]
    /\ UNCHANGED <<fs, op, arg, base, doc, result, loaded, before, fault, rm_err, calls>>
    /\ UNCHANGED <<wdVars, labelVars, callVars>>

(* The application is started again after a crash. *)
Restart(w) ==
    /\ pc[w] = "crashed"
    /\ pc' = [pc EXCEPT ![w] = "idle"]
    /\ op' = [op EXCEPT ![w] = "none"]
    /\ result' = [result EXCEPT ![w] = "none"]
    /\ arg' = [arg EXCEPT ![w] = EmptyMap]
    /\ base' = [base EXCEPT ![w] = EmptyMap]
    /\ doc' = [doc EXCEPT ![w] = EmptyMap]
    /\ before' = [before EXCEPT ![w] = [exists |-> FALSE, data |-> <<>>]]
    /\ fault' = [fault EXCEPT ![w] = FALSE]
    /\ rm_err' = [rm_err EXCEPT ![w] = FALSE]
    /\ UNCHANGED <<fs, ino, fd, off, loaded, calls>>
    /\ UNCHANGED <<wdVars, labelVars, callVars>>

(***************************************************************************)
(* Requests.                                                               *)
(***************************************************************************)
With(d, k, v) == Merge(d, [x \in {k} |-> v])

SaveInputs ==
    { DEFAULT_SETTINGS,
      MinimalSettings,
      With(DEFAULT_SETTINGS, "threshold", Num(150)),
      [printer_uri |-> Str("tcp://192.168.1.100"), label_size |-> Str("62")] }

(* Bodies of requests to the settings endpoint. *)
ApiInputs ==
    { [font_size |-> Num(30)],
      MinimalSettings,
      [printer_uri |-> Str("tcp://192.168.1.100"), printer_model |-> Str("QL-800"),
       label_size |-> Str("62"), threshold |-> Str("62")],
      [printer_uri |-> Str("tcp://192.168.1.100"), printer_model |-> Str("QL-800"),
       label_size |-> Str("62"), rotate |-> Num(45)] }

UpdateInputs ==
    { [font_size |-> Num(30)],
      [threshold |-> Num(150)],
      [alignment |-> Str("center"), rotate |-> Num(45)],
      [alignment |-> Str("middle")],
      [printer_uri |-> Str("usb://0x04f9:0x209b")],
      [keep_alive_enabled |-> Bool(TRUE), keep_alive_interval |-> Num(30)],
      [keep_alive_interval |-> Num(5)],
      [keep_alive_enabled |-> Bool(TRUE), keep_alive_interval |-> NaN],
      [printer_model |-> Str(" ")],
      [label_size |-> Num(62)],
      [note |-> Str("x")],
      [printers |-> List(<<>>)],
      [printers |-> List(<<Dict([id |-> Null, printer_uri |-> Str("tcp://10.0.0.5:9100"),
                                 printer_model |-> Str("QL-820NWB"),
                                 label_size |-> Str("29")])>>)],
      [printers |-> List(<<Dict([id |-> Str("p1"), printer_uri |-> Str("tcp://10.0.0.5:9100"),
                                 printer_model |-> Str("")])>>)] }

StoreStep(w) ==
    \/ calls[w] < MaxCalls /\ \E d \in SaveInputs : SaveSettings(w, d)
    \/ calls[w] < MaxCalls /\ \E u \in UpdateInputs : UpdateSettings(w, u)
    \/ OpenTemp(w)
    \/ WriteChunk(w)
    \/ FsyncClose(w)
    \/ ReplaceFile(w)
    \/ IOFailure(w)
    \/ CleanupTemp(w)
    \/ calls[w] < MaxCalls /\ GetSettings(w)
    \/ calls[w] < MaxCalls /\ ResaveSettings(w)
    \/ calls[w] < MaxCalls /\ \E u \in ApiInputs : ApiUpdateSettings(w, u)
    \/ Crash(w)
    \/ Restart(w)

(* One process using the store, one call at a time. *)
StoreNext == StoreStep(1)

StoreSpec == StoreInit /\ [][StoreNext]_vars

(* Two request threads (or processes) using the store concurrently. *)
ConcInitialFiles ==
    { [exists |-> FALSE, data |-> <<>>],
      [exists |-> TRUE,  data |-> JsonDump(DEFAULT_SETTINGS)] }

ConcInit == InitWith(ConcInitialFiles)

ConcSaveInputs == {MinimalSettings}

ConcUpdateInputs == {[font_size |-> Num(30)], [note |-> Str("x")]}

ConcStep(w) ==
    \/ calls[w] < MaxConcCalls /\ \E d \in ConcSaveInputs : SaveSettings(w, d)
    \/ calls[w] < MaxConcCalls /\ \E u \in ConcUpdateInputs : UpdateSettings(w, u)
    \/ OpenTemp(w)
    \/ WriteChunk(w)
    \/ FsyncClose(w)
    \/ ReplaceFile(w)
    \/ CleanupTemp(w)
    \/ calls[w] < MaxConcCalls /\ GetSettings(w)

ConcNext == \E w \in Writers : ConcStep(w)

ConcSpec == ConcInit /\ [][ConcNext]_vars

(***************************************************************************)
(* PrinterService._keep_alive_worker, one action per blocking point.       *)
(***************************************************************************)
max_backoff == 300

(* backoff_time = min(interval * (2 ** consecutive_failures), max_backoff). *)
(* Python integers are unbounded; from 2 ** 9 on the product of an         *)
(* interval of at least 1 exceeds max_backoff, and the power is not        *)
(* computed.                                                               *)
BackoffTime(interval, failures) ==
    IF failures >= 9 THEN max_backoff
    ELSE Min(interval * (2 ^ failures), max_backoff)

(* 2 ** 1024 is the first power of two that does not convert to a float:   *)
(* interval * (2 ** consecutive_failures) raises OverflowError for a float *)
(* interval.                                                               *)
FloatOverflowExp == 1024

BackoffOverflows(w) == wtarget[w].is_float /\ cf[w] >= FloatOverflowExp

(* The values of consecutive_failures the model follows: from 0, and from  *)
(* the length of a long outage.                                            *)
Followed(k) ==
    \/ k < MaxFailures
    \/ k >= LongOutage /\ k < LongOutage + MaxFailures

IsSet(e) == evset[e] = "set"

(* Thread.is_alive(): started and not yet returned from the worker. *)
IsAlive(w) == wpc[w] \notin {"none", "new", "done"}

Probing(w) == wpc[w] \in {"snmp", "tcp", "backend"}

(* log_level = "error" if consecutive_failures <= 3 else "warning", in the *)
(* handler of an exception that escapes the probes.                        *)
ExceptionLogLevel(consecutive_failures) ==
    IF consecutive_failures <= 3 THEN "error" ELSE "warning"

WorkerUnchanged == UNCHANGED <<keep_alive_thread, keep_alive_stop_event, evset, wev,
                               wtarget, rpc, rop, rloc, rjoin, rret>>

(* The worker returns; its local variables are gone. *)
WorkerExits(w) ==
    /\ wpc' = [wpc EXCEPT ![w] = "done"]
    /\ cf' = [cf EXCEPT ![w] = 0]
    /\ gap' = [gap EXCEPT ![w] = 0]
    /\ tick' = [tick EXCEPT ![w] = NoTick]
    /\ log_level' = [log_level EXCEPT ![w] = "none"]

(* A loop that takes the printer and the interval from the stored          *)
(* configuration at every pass.                                            *)
WorkerLoopReadsSettings(w) ==
    /\ wpc[w] = "loop"
    /\ IF IsSet(wev[w]) THEN WorkerExits(w) /\ UNCHANGED wtarget
       ELSE /\ wpc' = [wpc EXCEPT ![w] = IF cf[w] > 0 THEN "backoff" ELSE "snmp"]
            /\ tick' = [tick EXCEPT ![w] = NoTick]
            /\ log_level' = [log_level EXCEPT ![w] = "none"]
            /\ wtarget' = [wtarget EXCEPT ![w] =
                              [printer_uri |-> LoadSettings(DiskFile)["printer_uri"].s,
                               printer_model |-> LoadSettings(DiskFile)["printer_model"].s,
                               interval |-> LoadSettings(DiskFile)["keep_alive_interval"].n,
                               is_float |-> wtarget[w].is_float]]
            /\ UNCHANGED <<cf, gap>>
    /\ UNCHANGED <<keep_alive_thread, keep_alive_stop_event, evset, wev,
                   rpc, rop, rloc, rjoin, rret>>
    /\ UNCHANGED <<storeVars, labelVars, callVars>>

(* while not stop_event.is_set(): ... if consecutive_failures > 0: *)
WorkerLoop(w) ==
    /\ wpc[w] = "loop"
    /\ IF IsSet(wev[w]) THEN WorkerExits(w)
       ELSE /\ wpc' = [wpc EXCEPT ![w] = IF cf[w] > 0 THEN "backoff" ELSE "snmp"]
            /\ tick' = [tick EXCEPT ![w] = NoTick]
            /\ log_level' = [log_level EXCEPT ![w] = "none"]
            /\ UNCHANGED <<cf, gap>>
    /\ WorkerUnchanged
    /\ UNCHANGED <<storeVars, labelVars, callVars>>

BackoffWaitNoBreak(w) ==
    /\ wpc[w] = "backoff"
    /\ LET timeout == BackoffTime(wtarget[w].interval, cf[w]) - wtarget[w].interval
       IN  /\ wpc' = [wpc EXCEPT ![w] = "snmp"]
           /\ gap' = [gap EXCEPT ![w] = IF IsSet(wev[w]) THEN gap[w]
                                        ELSE gap[w] + Max(0, timeout)]
    /\ UNCHANGED <<cf, tick, log_level>>
    /\ WorkerUnchanged
    /\ UNCHANGED <<storeVars, labelVars, callVars>>

(* backoff_time = min(...): an OverflowError is caught by the outer except *)
(* (consecutive_failures += 1, then the wait at the end of the loop body). *)
(* if stop_event.wait(backoff_time - interval): break                      *)
BackoffWait(w) ==
    /\ wpc[w] = "backoff"
    /\ LET timeout == BackoffTime(wtarget[w].interval, cf[w]) - wtarget[w].interval
       IN  IF BackoffOverflows(w)
           THEN /\ Followed(cf[w])
                /\ wpc' = [wpc EXCEPT ![w] = "sleep"]
                /\ cf' = [cf EXCEPT ![w] = cf[w] + 1]
                /\ gap' = [gap EXCEPT ![w] = 0]
                /\ tick' = [tick EXCEPT ![w] = [tried |-> <<>>, outcome |-> "exception"]]
                /\ log_level' = [log_level EXCEPT ![w] = ExceptionLogLevel(cf[w] + 1)]
           ELSE IF IsSet(wev[w])
           THEN WorkerExits(w)
           ELSE /\ wpc' = [wpc EXCEPT ![w] = "snmp"]
                /\ gap' = [gap EXCEPT ![w] = gap[w] + Max(0, timeout)]
                /\ UNCHANGED <<cf, tick, log_level>>
    /\ WorkerUnchanged
    /\ UNCHANGED <<storeVars, labelVars, callVars>>

(* Strategies tried so far in the tick under way. *)
Tried(w) == IF wpc[w] = "snmp" THEN <<>> ELSE tick[w].tried

(* A strategy succeeded: consecutive_failures = 0, then the wait at the    *)
(* end of the loop body.                                                   *)
TickSucceeded(w) ==
    /\ wpc' = [wpc EXCEPT ![w] = "sleep"]
    /\ cf' = [cf EXCEPT ![w] = 0]
    /\ gap' = [gap EXCEPT ![w] = 0]
    /\ tick' = [tick EXCEPT ![w] = [tried |-> Append(Tried(w), wpc[w]), outcome |-> "success"]]
    /\ log_level' = [log_level EXCEPT ![w] = "none"]

(* The strategy at the worker's position failed; the next one is tried. *)
FallBack(w, next) ==
    /\ wpc' = [wpc EXCEPT ![w] = next]
    /\ tick' = [tick EXCEPT ![w] = [tried |-> Append(Tried(w), wpc[w]), outcome |-> "running"]]
    /\ UNCHANGED <<cf, gap, log_level>>

SnmpPingSkipsTcp(w, ok) ==
    /\ wpc[w] = "snmp"
    /\ IF ok THEN TickSucceeded(w) ELSE FallBack(w, "backend")
    /\ WorkerUnchanged
    /\ UNCHANGED <<storeVars, labelVars, callVars>>

(* if self._snmp_ping(ip_address) *)
SnmpPing(w, ok) ==
    /\ wpc[w] = "snmp"
    /\ IF ok THEN TickSucceeded(w) ELSE FallBack(w, "tcp")
    /\ WorkerUnchanged
    /\ UNCHANGED <<storeVars, labelVars, callVars>>

(* elif self._tcp_ping(ip_address) *)
TcpPing(w, ok) ==
    /\ wpc[w] = "tcp"
    /\ IF ok THEN TickSucceeded(w) ELSE FallBack(w, "backend")
    /\ WorkerUnchanged
    /\ UNCHANGED <<storeVars, labelVars, callVars>>

BackendPingCapped(w, ok) ==
    /\ wpc[w] = "backend"
    /\ ~ok => Followed(cf[w])
    /\ IF ok THEN TickSucceeded(w)
       ELSE /\ wpc' = [wpc EXCEPT ![w] = "loop"]
            /\ cf' = [cf EXCEPT ![w] = Min(cf[w] + 1, 3)]
            /\ gap' = [gap EXCEPT ![w] = 0]
            /\ tick' = [tick EXCEPT ![w] =
                            [tried |-> Append(Tried(w), "backend"), outcome |-> "failure"]]
            /\ log_level' = [log_level EXCEPT ![w] = "warning"]
    /\ WorkerUnchanged
    /\ UNCHANGED <<storeVars, labelVars, callVars>>

(* else: backend_factory("network")["backend_class"](printer_uri);         *)
(* on an exception consecutive_failures += 1 and continue.                 *)
BackendPing(w, ok) ==
    /\ wpc[w] = "backend"
    /\ ~ok => Followed(cf[w])
    /\ IF ok THEN TickSucceeded(w)
       ELSE /\ wpc' = [wpc EXCEPT ![w] = "loop"]
            /\ cf' = [cf EXCEPT ![w] = cf[w] + 1]
            /\ gap' = [gap EXCEPT ![w] = 0]
            /\ tick' = [tick EXCEPT ![w] =
                            [tried |-> Append(Tried(w), "backend"), outcome |-> "failure"]]
            /\ log_level' = [log_level EXCEPT ![w] = "warning"]
    /\ WorkerUnchanged
    /\ UNCHANGED <<storeVars, labelVars, callVars>>

(* except Exception as e: an exception that escapes the probes. *)
TickException(w) ==
    /\ Probing(w)
    /\ Followed(cf[w])
    /\ wpc' = [wpc EXCEPT ![w] = "sleep"]
    /\ cf' = [cf EXCEPT ![w] = cf[w] + 1]
    /\ gap' = [gap EXCEPT ![w] = 0]
    /\ tick' = [tick EXCEPT ![w] = [tried |-> Tried(w), outcome |-> "exception"]]
    /\ log_level' = [log_level EXCEPT ![w] = ExceptionLogLevel(cf[w] + 1)]
    /\ WorkerUnchanged
    /\ UNCHANGED <<storeVars, labelVars, callVars>>

(* stop_event.wait(interval) at the end of the loop body. *)
IntervalWait(w) ==
    /\ wpc[w] = "sleep"
    /\ wpc' = [wpc EXCEPT ![w] = "loop"]
    /\ gap' = [gap EXCEPT ![w] = IF IsSet(wev[w]) THEN gap[w]
                                 ELSE gap[w] + wtarget[w].interval]
    /\ tick' = [tick EXCEPT ![w] = NoTick]
    /\ log_level' = [log_level EXCEPT ![w] = "none"]
    /\ UNCHANGED cf
    /\ WorkerUnchanged
    /\ UNCHANGED <<storeVars, labelVars, callVars>>

WorkerStep(w) ==
    \/ WorkerLoop(w)
    \/ BackoffWait(w)
    \/ \E ok \in BOOLEAN : SnmpPing(w, ok)
    \/ \E ok \in BOOLEAN : TcpPing(w, ok)
    \/ \E ok \in BOOLEAN : BackendPing(w, ok)
    \/ TickException(w)
    \/ IntervalWait(w)

(***************************************************************************)
(* PrinterService.start_keep_alive and stop_keep_alive, run by request     *)
(* threads, one action per attribute access or blocking call.              *)
(***************************************************************************)
Intervals == {60, 400}

(* Threads created so far, and calls that are about to create one. *)
Created == {w \in Workers : wpc[w] # "none"}

Creating == {r \in Requests : rop[r] = "start" /\ rpc[r] \in
                {"check", "set", "join", "joining", "clear", "mkevent", "mkthread"}}

FirstProfileField(settings, field) ==
    IF "printers" \in DOMAIN settings /\ settings["printers"].l # <<>>
          /\ field \in DOMAIN settings["printers"].l[1].m
    THEN settings["printers"].l[1].m[field].s
    ELSE ""

(* settings.get(field, "") or the first printer of the printers list. *)
ResolveField(settings, field) ==
    IF field \in DOMAIN settings /\ Truthy(settings[field])
    THEN settings[field].s
    ELSE FirstProfileField(settings, field)

ReqUnchanged == UNCHANGED <<wev, wtarget, cf, gap, tick, log_level>>

(* The call returns to its caller. *)
Return(r, success) ==
    /\ rpc' = [rpc EXCEPT ![r] = "idle"]
    /\ rret' = [rret EXCEPT ![r] = success]
    /\ rjoin' = [rjoin EXCEPT ![r] = 0]

(* stop_keep_alive returns; inside start_keep_alive the result is ignored  *)
(* and the call goes on to create the event.                               *)
StopReturns(r, success) ==
    IF rop[r] = "start"
    THEN /\ rpc' = [rpc EXCEPT ![r] = "mkevent"]
         /\ rjoin' = [rjoin EXCEPT ![r] = 0]
         /\ UNCHANGED rret
    ELSE Return(r, success)

(* start_keep_alive(interval=interval): read the settings, resolve the     *)
(* printer, validate, then call stop_keep_alive.                           *)
StartKeepAlive(r, interval) ==
    /\ rpc[r] = "idle"
    /\ Cardinality(Created) + Cardinality(Creating) < MaxStarts
    /\ LET settings == LoadSettings(DiskFile)
           printer_uri == ResolveField(settings, "printer_uri")
           printer_model == ResolveField(settings, "printer_model")
       IN  /\ rop' = [rop EXCEPT ![r] = "start"]
           /\ \E is_float \in BOOLEAN :
                 rloc' = [rloc EXCEPT ![r] =
                            [settings |-> settings, printer_uri |-> printer_uri,
                             printer_model |-> printer_model, interval |-> interval,
                             is_float |-> is_float]]
           /\ IF printer_uri = "" \/ printer_model = ""
              THEN Return(r, FALSE)
              ELSE /\ rpc' = [rpc EXCEPT ![r] = "check"]
                   /\ UNCHANGED <<rjoin, rret>>
    /\ UNCHANGED <<keep_alive_thread, keep_alive_stop_event, evset, wpc>>
    /\ ReqUnchanged
    /\ UNCHANGED <<storeVars, labelVars, callVars>>

StopKeepAlive(r) ==
    /\ rpc[r] = "idle"
    /\ rop' = [rop EXCEPT ![r] = "stop"]
    /\ rloc' = [rloc EXCEPT ![r] = NoLocals]
    /\ rpc' = [rpc EXCEPT ![r] = "check"]
    /\ UNCHANGED <<keep_alive_thread, keep_alive_stop_event, evset, wpc, rjoin, rret>>
    /\ ReqUnchanged
    /\ UNCHANGED <<storeVars, labelVars, callVars>>

StopCheckNoTest(r) ==
    /\ rpc[r] = "check"
    /\ rpc' = [rpc EXCEPT ![r] = "set"]
    /\ UNCHANGED <<rjoin, rret>>
    /\ UNCHANGED <<keep_alive_thread, keep_alive_stop_event, evset, wpc, rop, rloc>>
    /\ ReqUnchanged
    /\ UNCHANGED <<storeVars, labelVars, callVars>>

(* if self.keep_alive_thread and self.keep_alive_thread.is_alive() *)
StopCheck(r) ==
    /\ rpc[r] = "check"
    /\ IF keep_alive_thread # 0 /\ IsAlive(keep_alive_thread)
       THEN /\ rpc' = [rpc EXCEPT ![r] = "set"]
            /\ UNCHANGED <<rjoin, rret>>
       ELSE StopReturns(r, TRUE)
    /\ UNCHANGED <<keep_alive_thread, keep_alive_stop_event, evset, wpc, rop, rloc>>
    /\ ReqUnchanged
    /\ UNCHANGED <<storeVars, labelVars, callVars>>

(* self.keep_alive_stop_event.set() *)
StopSetEvent(r) ==
    /\ rpc[r] = "set"
    /\ evset' = [evset EXCEPT ![keep_alive_stop_event] = "set"]
    /\ rpc' = [rpc EXCEPT ![r] = "join"]
    /\ UNCHANGED <<keep_alive_thread, keep_alive_stop_event, wpc, rop, rloc, rjoin, rret>>
    /\ ReqUnchanged
    /\ UNCHANGED <<storeVars, labelVars, callVars>>

(* self.keep_alive_thread.join(timeout=5): the attribute is read again;    *)
(* None or a thread that was not started raises, and the call returns      *)
(* success False.                                                          *)
StopJoinCall(r) ==
    /\ rpc[r] = "join"
    /\ IF keep_alive_thread = 0 \/ wpc[keep_alive_thread] = "new"
       THEN StopReturns(r, FALSE)
       ELSE /\ rjoin' = [rjoin EXCEPT ![r] = keep_alive_thread]
            /\ rpc' = [rpc EXCEPT ![r] = "joining"]
            /\ UNCHANGED rret
    /\ UNCHANGED <<keep_alive_thread, keep_alive_stop_event, evset, wpc, rop, rloc>>
    /\ ReqUnchanged
    /\ UNCHANGED <<storeVars, labelVars, callVars>>

(* join returns when the worker has terminated, or after 5 seconds while   *)
(* the worker is still inside a probe (SNMP 2 x 2 s, three ports of 2 s,   *)
(* a connect of the transport without timeout).                            *)
StopJoinReturns(r) ==
    /\ rpc[r] = "joining"
    /\ wpc[rjoin[r]] = "done" \/ Probing(rjoin[r])
    /\ rpc' = [rpc EXCEPT ![r] = "clear"]
    /\ UNCHANGED <<keep_alive_thread, keep_alive_stop_event, evset, wpc, rop, rloc, rjoin, rret>>
    /\ ReqUnchanged
    /\ UNCHANGED <<storeVars, labelVars, callVars>>

(* self.keep_alive_thread = None; return success. *)
StopClearThread(r) ==
    /\ rpc[r] = "clear"
    /\ keep_alive_thread' = 0
    /\ StopReturns(r, TRUE)
    /\ UNCHANGED <<keep_alive_stop_event, evset, wpc, rop, rloc>>
    /\ ReqUnchanged
    /\ UNCHANGED <<storeVars, labelVars, callVars>>

(* self.keep_alive_stop_event = threading.Event() *)
NewStopEvent(r) ==
    /\ rpc[r] = "mkevent"
    /\ LET e == CHOOSE x \in Events :
                   /\ evset[x] = "unborn"
                   /\ \A z \in Events : evset[z] = "unborn" => x <= z
       IN  /\ keep_alive_stop_event' = e
           /\ evset' = [evset EXCEPT ![e] = "clear"]
    /\ rpc' = [rpc EXCEPT ![r] = "mkthread"]
    /\ UNCHANGED <<keep_alive_thread, wpc, rop, rloc, rjoin, rret>>
    /\ ReqUnchanged
    /\ UNCHANGED <<storeVars, labelVars, callVars>>

(* self.keep_alive_thread = threading.Thread(target=..., args=(printer_uri,*)
(* printer_model, interval, self.keep_alive_stop_event))                   *)
NewThread(r) ==
    /\ rpc[r] = "mkthread"
    /\ LET w == CHOOSE x \in Workers :
                   /\ wpc[x] = "none"
                   /\ \A z \in Workers : wpc[z] = "none" => x <= z
       IN  /\ wpc' = [wpc EXCEPT ![w] = "new"]
           /\ wev' = [wev EXCEPT ![w] = keep_alive_stop_event]
           /\ wtarget' = [wtarget EXCEPT ![w] =
                             [printer_uri |-> rloc[r].printer_uri,
                              printer_model |-> rloc[r].printer_model,
                              interval |-> rloc[r].interval,
                              is_float |-> rloc[r].is_float]]
           /\ keep_alive_thread' = w
    /\ rpc' = [rpc EXCEPT ![r] = "startthread"]
    /\ UNCHANGED <<keep_alive_stop_event, evset, cf, gap, tick, log_level, rop, rloc, rjoin, rret>>
    /\ UNCHANGED <<storeVars, labelVars, callVars>>

(* self.keep_alive_thread.start(): the attribute is read again; None or a  *)
(* thread that is already started raises, and start_keep_alive returns     *)
(* success False.                                                          *)
StartThread(r) ==
    /\ rpc[r] = "startthread"
    /\ IF keep_alive_thread = 0 \/ wpc[keep_alive_thread] # "new"
       THEN /\ Return(r, FALSE)
            /\ UNCHANGED wpc
       ELSE /\ wpc' = [wpc EXCEPT ![keep_alive_thread] = "loop"]
            /\ rpc' = [rpc EXCEPT ![r] = "persist"]
            /\ UNCHANGED <<rjoin, rret>>
    /\ UNCHANGED <<keep_alive_thread, keep_alive_stop_event, evset, rop, rloc>>
    /\ ReqUnchanged
    /\ UNCHANGED <<storeVars, labelVars, callVars>>

(* settings["keep_alive_enabled"] = True; settings["keep_alive_interval"]  *)
(* = interval; settings_service.update_settings(settings); return success. *)
(* The update is taken as one step: load, merge, validate, replace.        *)
PersistKeepAlive(r) ==
    /\ rpc[r] = "persist"
    /\ LET settings == Merge(rloc[r].settings,
                             [keep_alive_enabled |-> Bool(TRUE),
                              keep_alive_interval |-> Num(rloc[r].interval)])
           merged_settings == Merge(LoadSettings(DiskFile), settings)
       IN  IF ValidateSettings(merged_settings)
           THEN /\ fs' = [fs EXCEPT ![SettingsFile] = 1, ![TempFilePath] = 0]
                /\ ino' = [x \in Inodes |->
                             IF x = 1 THEN JsonDump(merged_settings) ELSE <<>>]
           ELSE UNCHANGED <<fs, ino>>
    /\ Return(r, TRUE)
    /\ UNCHANGED <<keep_alive_thread, keep_alive_stop_event, evset, wpc, rop, rloc>>
    /\ ReqUnchanged
    /\ UNCHANGED <<pc, op, arg, base, doc, fd, off, result, loaded, before, fault, rm_err, calls>>
    /\ UNCHANGED <<labelVars, callVars>>

RequestStep(r) ==
    \/ \E i \in Intervals : StartKeepAlive(r, i)
    \/ StopKeepAlive(r)
    \/ StopCheck(r)
    \/ StopSetEvent(r)
    \/ StopJoinCall(r)
    \/ StopJoinReturns(r)
    \/ StopClearThread(r)
    \/ NewStopEvent(r)
    \/ NewThread(r)
    \/ StartThread(r)
    \/ PersistKeepAlive(r)

WatchdogFiles ==
    { [exists |-> FALSE, data |-> <<>>],
      [exists |-> TRUE,  data |-> JsonDump(MinimalSettings)] }

WatchdogSpecInit == InitWith(WatchdogFiles)

(* The watchdog driven by one request at a time. *)
WatchdogNext ==
    \/ RequestStep(1)
    \/ \E w \in Workers : WorkerStep(w)

WatchdogSpec == WatchdogSpecInit /\ [][WatchdogNext]_vars

(* One worker from its start to its stop: start_keep_alive is called once. *)
WorkerNext ==
    \/ Created = {} /\ \E i \in Intervals : StartKeepAlive(1, i)
    \/ StopKeepAlive(1)
    \/ StopCheck(1)
    \/ StopSetEvent(1)
    \/ StopJoinCall(1)
    \/ StopJoinReturns(1)
    \/ StopClearThread(1)
    \/ NewStopEvent(1)
    \/ NewThread(1)
    \/ StartThread(1)
    \/ PersistKeepAlive(1)
    \/ WorkerStep(1)

WorkerSpec == WatchdogSpecInit /\ [][WorkerNext]_vars

(* The worker thread is scheduled fairly; requests need not arrive. *)
WorkerFairSpec == WatchdogSpecInit /\ [][WorkerNext]_vars /\ WF_vars(WorkerStep(1))

(* A stored configuration whose printer is attached by USB: it passes      *)
(* validation as long as keep-alive is disabled.                           *)
UsbSettings == Merge(DEFAULT_SETTINGS, [printer_uri |-> Str("usb://0x04f9:0x209b")])

EnableFiles ==
    { [exists |-> TRUE, data |-> JsonDump(UsbSettings)],
      [exists |-> TRUE, data |-> JsonDump(MinimalSettings)] }

EnableInit == InitWith(EnableFiles)

(* One start of the watchdog over a network or a USB configuration. *)
EnableSpec == EnableInit /\ [][WorkerNext]_vars

(* A watchdog started with interval 60.0 on a network printer that has     *)
(* failed every tick of a long outage.                                     *)
OutageSettings ==
    Merge(MinimalSettings, [keep_alive_enabled |-> Bool(TRUE),
                            keep_alive_interval |-> Num(60)])

OutageTarget ==
    [printer_uri |-> "tcp://10.0.0.5:9100", printer_model |-> "QL-820NWB",
     interval |-> 60, is_float |-> TRUE]

OutageInit ==
    /\ StoreFilesInit({[exists |-> TRUE, data |-> JsonDump(OutageSettings)]})
    /\ LabelIdle
    /\ CallsIdle
    /\ keep_alive_thread = 1
    /\ keep_alive_stop_event = 1
    /\ evset = [e \in Events |-> IF e \in {0, 1} THEN "clear" ELSE "unborn"]
    /\ wpc = [w \in Workers |-> IF w = 1 THEN "loop" ELSE "none"]
    /\ wev = [w \in Workers |-> IF w = 1 THEN 1 ELSE 0]
    /\ wtarget = [w \in Workers |-> IF w = 1 THEN OutageTarget ELSE NoTarget]
    /\ cf = [w \in Workers |-> IF w = 1 THEN LongOutage ELSE 0]
    /\ gap = [w \in Workers |-> 0]
    /\ tick = [w \in Workers |->
                 IF w = 1 THEN [tried |-> <<"snmp", "tcp", "backend">>, outcome |-> "failure"]
                 ELSE NoTick]
    /\ log_level = [w \in Workers |-> IF w = 1 THEN "warning" ELSE "none"]
    /\ rpc = [r \in Requests |-> "idle"]
    /\ rop = [r \in Requests |-> "start"]
    /\ rloc = [r \in Requests |->
                 [settings |-> LoadSettings([exists |-> TRUE, data |-> JsonDump(MinimalSettings)]),
                  printer_uri |-> OutageTarget.printer_uri,
                  printer_model |-> OutageTarget.printer_model,
                  interval |-> 60, is_float |-> TRUE]]
    /\ rjoin = [r \in Requests |-> 0]
    /\ rret = [r \in Requests |-> TRUE]

(* The running worker and the requests that stop it. *)
OutageNext ==
    \/ StopKeepAlive(1)
    \/ StopCheck(1)
    \/ StopSetEvent(1)
    \/ StopJoinCall(1)
    \/ StopJoinReturns(1)
    \/ StopClearThread(1)
    \/ WorkerStep(1)

OutageSpec == OutageInit /\ [][OutageNext]_vars

(***************************************************************************)
(* The two endpoints that change the keep-alive configuration, run by a    *)
(* request thread.  Their call of SettingsService.update_settings is taken *)
(* as one step: load, merge, validate, replace.                            *)
(***************************************************************************)
ReplaceWith(merged_settings) ==
    /\ fs' = [fs EXCEPT ![SettingsFile] = 1, ![TempFilePath] = 0]
    /\ ino' = [x \in Inodes |-> IF x = 1 THEN JsonDump(merged_settings) ELSE <<>>]

(* api/settings_controller.py: update_settings. *)
SettingsEndpoint(r, body) ==
    /\ rpc[r] = "idle"
    /\ rop' = [rop EXCEPT ![r] = "settings"]
    /\ rloc' = [rloc EXCEPT ![r] = NoLocals]
    /\ LET merged_settings == Merge(LoadSettings(DiskFile), body)
       IN  IF body # EmptyMap /\ ControllerValidate(body) /\ ValidateSettings(merged_settings)
           THEN ReplaceWith(merged_settings) /\ Return(r, TRUE)
           ELSE UNCHANGED <<fs, ino>> /\ Return(r, FALSE)
    /\ UNCHANGED <<keep_alive_thread, keep_alive_stop_event, evset, wpc>>
    /\ ReqUnchanged
    /\ UNCHANGED <<pc, op, arg, base, doc, fd, off, result, loaded, before, fault, rm_err, calls>>
    /\ UNCHANGED <<labelVars, callVars>>

(* api/printer_controller.py: update_keep_alive.  The body is checked, the *)
(* two keys are stored, and the call goes on into start_keep_alive         *)
(* (interval=interval) or stop_keep_alive.                                 *)
UpdateKeepAlive(r, enabled, interval) ==
    /\ rpc[r] = "idle"
    /\ enabled => Cardinality(Created) + Cardinality(Creating) < MaxStarts
    /\ LET keep_alive_update == [keep_alive_enabled |-> Bool(enabled),
                                 keep_alive_interval |-> Num(interval)]
           merged_settings == Merge(LoadSettings(DiskFile), keep_alive_update)
           printer_uri == ResolveField(merged_settings, "printer_uri")
           printer_model == ResolveField(merged_settings, "printer_model")
       IN  IF interval < 10 \/ ~ValidateSettings(merged_settings)
           THEN /\ rop' = [rop EXCEPT ![r] = "update_keep_alive"]
                /\ rloc' = [rloc EXCEPT ![r] = NoLocals]
                /\ Return(r, FALSE)
                /\ UNCHANGED <<fs, ino>>
           ELSE /\ ReplaceWith(merged_settings)
                /\ IF enabled
                   THEN /\ rop' = [rop EXCEPT ![r] = "start"]
                        /\ rloc' = [rloc EXCEPT ![r] =
                                      [settings |-> merged_settings,
                                       printer_uri |-> printer_uri,
                                       printer_model |-> printer_model,
                                       interval |-> interval,
                                       is_float |-> FALSE]]
                        /\ IF printer_uri = "" \/ printer_model = ""
                           THEN Return(r, FALSE)
                           ELSE /\ rpc' = [rpc EXCEPT ![r] = "check"]
                                /\ UNCHANGED <<rjoin, rret>>
                   ELSE /\ rop' = [rop EXCEPT ![r] = "stop"]
                        /\ rloc' = [rloc EXCEPT ![r] = NoLocals]
                        /\ rpc' = [rpc EXCEPT ![r] = "check"]
                        /\ UNCHANGED <<rjoin, rret>>
    /\ UNCHANGED <<keep_alive_thread, keep_alive_stop_event, evset, wpc>>
    /\ ReqUnchanged
    /\ UNCHANGED <<pc, op, arg, base, doc, fd, off, result, loaded, before, fault, rm_err, calls>>
    /\ UNCHANGED <<labelVars, callVars>>

EnableBody ==
    [printer_uri |-> Str("tcp://10.0.0.5:9100"), printer_model |-> Str("QL-820NWB"),
     label_size |-> Str("29"), keep_alive_enabled |-> Bool(TRUE),
     keep_alive_interval |-> Num(60)]

ConfigBodies == {EnableBody, [font_size |-> Num(30)]}

(* Whole numbers of seconds. *)
ConfigIntervals == {5, 60}

ConfigStep(r) ==
    \/ \E body \in ConfigBodies : SettingsEndpoint(r, body)
    \/ \E enabled \in BOOLEAN, i \in ConfigIntervals : UpdateKeepAlive(r, enabled, i)
    \/ StopCheck(r)
    \/ StopSetEvent(r)
    \/ StopJoinCall(r)
    \/ StopJoinReturns(r)
    \/ StopClearThread(r)
    \/ NewStopEvent(r)
    \/ NewThread(r)
    \/ StartThread(r)
    \/ PersistKeepAlive(r)

ConfigInit == InitWith({[exists |-> TRUE, data |-> JsonDump(MinimalSettings)]})

ConfigNext ==
    \/ ConfigStep(1)
    \/ \E w \in Workers : WorkerStep(w)

ConfigSpec == ConfigInit /\ [][ConfigNext]_vars

(***************************************************************************)
(* PrinterService._create_text_label.  The text is a sequence of text runs *)
(* (without character references) and tags.  The font's measurements are   *)
(* not known here: textbbox may return any of a few widths and heights.    *)
(***************************************************************************)
BrTags == {"<br>", "<br/>"}

OtherTags == {"<b>", "</b>"}

TextRuns == {"Hello", "World"}

Tokens == TextRuns \cup {"<br>", "<b>"}

Markups == UNION {[1..n -> Tokens] : n \in 0..MaxTokens}

Alignments == {"left", "center", "right", "middle"}

LineWidths == {0, 300, 701}

LineHeights == {0, 37, 48}

width == 696

line_spacing == 5

(* TextParser.feed: handle_data appends a run of text, handle_starttag     *)
(* appends "<br>" for a br tag and nothing for any other tag.              *)
RECURSIVE FeedFrom(_, _, _, _)
FeedFrom(html, i, parts, data) ==
    LET flushed == IF data = "" THEN parts ELSE Append(parts, data)
    IN  IF i > Len(html) THEN flushed
        ELSE IF html[i] \in BrTags THEN FeedFrom(html, i + 1, Append(flushed, "<br>"), "")
        ELSE IF html[i] \in OtherTags THEN FeedFrom(html, i + 1, flushed, "")
        ELSE FeedFrom(html, i + 1, parts, data \o html[i])

Feed(html) == FeedFrom(html, 1, <<>>, "")

(* "".join(current_line) *)
RECURSIVE Join(_)
Join(current_line) ==
    IF current_line = <<>> THEN ""
    ELSE Head(current_line) \o Join(Tail(current_line))

(* The loop over parser.parts and the "if current_line" after it. *)
RECURSIVE SplitFrom(_, _, _, _)
SplitFrom(parts, i, done, current_line) ==
    IF i > Len(parts)
    THEN IF current_line # <<>> THEN Append(done, Join(current_line)) ELSE done
    ELSE IF parts[i] = "<br>"
    THEN SplitFrom(parts, i + 1, Append(done, Join(current_line)), <<>>)
    ELSE SplitFrom(parts, i + 1, done, Append(current_line, parts[i]))

SplitLines(parts) == SplitFrom(parts, 1, <<>>, <<>>)

LabelInit ==
    /\ WatchdogInit
    /\ StoreFilesInit({[exists |-> FALSE, data |-> <<>>]})
    /\ CallsIdle
    /\ lpc = "parse"
    /\ html_text \in Markups
    /\ alignment \in Alignments
    /\ lines = <<>>
    /\ line_metrics = <<>>
    /\ total_height = 0
    /\ image_height = 0
    /\ y = 0
    /\ drawn = <<>>

(* Parse the text and split it into lines. *)
ParseText ==
    /\ lpc = "parse"
    /\ lines' = SplitLines(Feed(html_text))
    /\ total_height' = 10
    /\ line_metrics' = <<>>
    /\ lpc' = "measure"
    /\ UNCHANGED <<html_text, alignment, image_height, y, drawn>>
    /\ UNCHANGED <<storeVars, wdVars, callVars>>

(* One iteration of "for line in lines". *)
MeasureLine ==
    /\ lpc = "measure"
    /\ Len(line_metrics) < Len(lines)
    /\ \E line_width \in LineWidths, line_height \in LineHeights :
          /\ total_height' = total_height + line_height + line_spacing
          /\ line_metrics' = Append(line_metrics,
                                    [line_text |-> lines[Len(line_metrics) + 1],
                                     line_height |-> line_height,
                                     line_width |-> line_width])
    /\ UNCHANGED <<lpc, html_text, alignment, lines, image_height, y, drawn>>
    /\ UNCHANGED <<storeVars, wdVars, callVars>>

(* total_height += 10 and Image.new("RGB", (width, total_height)). *)
NewImage ==
    /\ lpc = "measure"
    /\ Len(line_metrics) = Len(lines)
    /\ total_height' = total_height + 10
    /\ image_height' = total_height'
    /\ y' = 10
    /\ lpc' = "draw"
    /\ UNCHANGED <<html_text, alignment, lines, line_metrics, drawn>>
    /\ UNCHANGED <<storeVars, wdVars, callVars>>

DrawLineRightFlush ==
    /\ lpc = "draw"
    /\ Len(drawn) < Len(line_metrics)
    /\ LET m == line_metrics[Len(drawn) + 1]
           x == IF alignment = "center" THEN (width - m.line_width) \div 2
                ELSE IF alignment = "right" THEN width - m.line_width
                ELSE 10
       IN  /\ drawn' = Append(drawn, [x |-> x, y |-> y, line_text |-> m.line_text])
           /\ y' = y + m.line_height + line_spacing
    /\ UNCHANGED <<lpc, html_text, alignment, lines, line_metrics, total_height, image_height>>
    /\ UNCHANGED <<storeVars, wdVars, callVars>>

(* One iteration of the drawing loop. *)
DrawLine ==
    /\ lpc = "draw"
    /\ Len(drawn) < Len(line_metrics)
    /\ LET m == line_metrics[Len(drawn) + 1]
           x == IF alignment = "center" THEN (width - m.line_width) \div 2
                ELSE IF alignment = "right" THEN width - m.line_width - 10
                ELSE 10
       IN  /\ drawn' = Append(drawn, [x |-> x, y |-> y, line_text |-> m.line_text])
           /\ y' = y + m.line_height + line_spacing
    /\ UNCHANGED <<lpc, html_text, alignment, lines, line_metrics, total_height, image_height>>
    /\ UNCHANGED <<storeVars, wdVars, callVars>>

(* image.save and the return. *)
SaveImage ==
    /\ lpc = "draw"
    /\ Len(drawn) = Len(line_metrics)
    /\ lpc' = "done"
    /\ UNCHANGED <<html_text, alignment, lines, line_metrics, total_height, image_height,
                   y, drawn>>
    /\ UNCHANGED <<storeVars, wdVars, callVars>>

LabelNext ==
    \/ ParseText
    \/ MeasureLine
    \/ NewImage
    \/ DrawLine
    \/ SaveImage

LabelSpec == LabelInit /\ [][LabelNext]_vars

(***************************************************************************)
(* Properties of the configuration store.                                  *)
(***************************************************************************)
InSave(w) == pc[w] \in {"open", "write", "fsync", "replace", "cleanup", "crashed"}

Returned(w) == pc[w] = "idle" /\ op[w] \in {"save", "update"}

(* The validation rules of the configuration, rule by rule. *)
RuleViolated(d) ==
    \/ \E k \in DOMAIN d : ~TypeOk(k, d[k])
    \/ \E k \in {"printer_uri", "printer_model", "label_size"} :
          k \notin DOMAIN d \/ IsBlank(d[k].s)
    \/ ~AlignmentPass(d)
    \/ ~RotatePass(d)
    \/ ~ThresholdPass(d)
    \/ ~KeepAlivePass(d)
    \/ ~PrintersPass(d)

(* C1: a save interrupted at any step of its write sequence, also by a     *)
(* crash, leaves the destination file either the complete old document or  *)
(* the complete new document.                                              *)
C1_AtomicSave ==
    \A w \in Writers :
        InSave(w) =>
            \/ DiskFile = before[w]
            \/ DiskFile = [exists |-> TRUE, data |-> JsonDump(doc[w])]

(* A crash in the middle of the write: the temporary file is incomplete. *)
C1_Witness ==
    /\ pc[1] = "crashed"
    /\ fs[TempFilePath] # 0
    /\ Len(ino[fs[TempFilePath]]) > 0
    /\ Len(ino[fs[TempFilePath]]) < Len(JsonDump(doc[1]))
    /\ before[1].exists
    /\ DiskFile = before[1]

C8_RequiredFieldsStored ==
    \A w \in Writers :
        (Returned(w) /\ result[w] = "ok") =>
            LET stored == JsonLoad(DiskFile.data)
            IN  /\ DiskFile.exists
                /\ stored.ok
                /\ stored.dict
                /\ \A k \in {"printer_uri", "printer_model", "label_size"} :
                      /\ k \in DOMAIN stored.v
                      /\ stored.v[k].t = "str"
                      /\ ~IsBlank(stored.v[k].s)

(* A successful save of a document that holds little more than the         *)
(* required fields.                                                        *)
C8_Witness ==
    /\ Returned(1)
    /\ op[1] = "save"
    /\ result[1] = "ok"
    /\ arg[1] = MinimalSettings
    /\ DiskFile.data = JsonDump(MinimalSettings)

(* C9: load always returns a configuration: the defaults when the file is  *)
(* missing, unparsable or not a mapping, otherwise the stored values with  *)
(* the missing keys filled from the defaults.                              *)
C9_LoadAlwaysSucceeds ==
    \A w \in Writers :
        (pc[w] = "idle" /\ op[w] = "load") =>
            LET stored == JsonLoad(before[w].data)
            IN  /\ result[w] = "ok"
                /\ IF ~before[w].exists \/ ~stored.ok \/ ~stored.dict
                   THEN loaded[w] = DEFAULT_SETTINGS
                   ELSE /\ DOMAIN loaded[w] = (DOMAIN stored.v) \cup (DOMAIN DEFAULT_SETTINGS)
                        /\ \A k \in DOMAIN stored.v : loaded[w][k] = stored.v[k]
                        /\ \A k \in (DOMAIN DEFAULT_SETTINGS) \ (DOMAIN stored.v) :
                              loaded[w][k] = DEFAULT_SETTINGS[k]

(* A load of a stored mapping that lacks most keys. *)
C9_Witness ==
    /\ pc[1] = "idle"
    /\ op[1] = "load"
    /\ before[1] = [exists |-> TRUE, data |-> JsonDump(MinimalSettings)]
    /\ loaded[1]["font_size"] = Num(30)
    /\ loaded[1]["alignment"] = Str("left")

(* C6: under concurrent saves, updates and loads the destination file is   *)
(* at every moment a complete document: it parses, it is a mapping, and it *)
(* is exactly what one dump of that mapping writes.                        *)
C6_NoHalfWrittenFile ==
    DiskFile.exists =>
        LET stored == JsonLoad(DiskFile.data)
        IN  /\ stored.ok
            /\ stored.dict
            /\ DiskFile.data = JsonDump(stored.v)

(***************************************************************************)
(* Properties of the keep-alive watchdog.                                  *)
(***************************************************************************)
(* C4: at most one watchdog worker is alive at any time.                   *)
C4_AtMostOneWorker == Cardinality({w \in Workers : IsAlive(w)}) <= 1

(* C5: after k >= 1 consecutive total failures the worker has waited       *)
(* min(interval * 2^k, 300) seconds in all when it starts its next probe.  *)
C5_BackoffSpacing ==
    [][\A w \in Workers :
          (wpc[w] \in {"loop", "backoff"} /\ wpc'[w] = "snmp" /\ cf[w] >= 1) =>
              gap'[w] = Min(wtarget[w].interval * (2 ^ cf[w]), 300)]_vars

TickEnds(w) == Probing(w) /\ ~Probing(w)'

(* C7: a tick in which a strategy succeeds leaves the counter at 0, a tick *)
(* in which all fail leaves it exactly one greater than before, whatever   *)
(* its value.                                                              *)
C7_FailureCounter ==
    [][\A w \in Workers :
          TickEnds(w) =>
              /\ tick'[w].outcome = "success" => cf'[w] = 0
              /\ tick'[w].outcome \in {"failure", "exception"} => cf'[w] = cf[w] + 1
              /\ tick'[w].outcome \in {"success", "failure", "exception"}]_vars

(* The counter has passed the point where the backoff delay is capped. *)
C7_Witness ==
    /\ wpc[1] = "loop"
    /\ tick[1].outcome = "failure"
    /\ tick[1].tried = <<"snmp", "tcp", "backend">>
    /\ cf[1] = 4
    /\ wtarget[1].interval = 60
    /\ BackoffTime(60, 3) = 300
    /\ BackoffTime(60, 4) = 300

(* A worker whose stop signal is set and that is in a cancellable wait or  *)
(* at the loop test.                                                       *)
Stopping(w) == IsSet(wev[w]) /\ wpc[w] \in {"sleep", "backoff", "loop"}

(* C10: once the stop signal is set, a worker blocked in the interval wait *)
(* or in the backoff wait returns without waiting, starts no further probe *)
(* tick and terminates.                                                    *)
C10_PromptShutdown ==
    /\ [][\A w \in Workers :
             Stopping(w) =>
                 /\ Stopping(w)' \/ wpc'[w] = "done"
                 /\ gap'[w] = gap[w] \/ wpc'[w] = "done"]_vars
    /\ \A w \in Workers : Stopping(w) ~> (wpc[w] = "done")

(* Both waits were reached with the stop signal set. *)
C10_Witness ==
    /\ IsSet(wev[1])
    /\ wpc[1] = "backoff"
    /\ cf[1] >= 1
    /\ rpc[1] = "joining"

(* The watchdog is stopped: no thread is recorded, or the recorded thread  *)
(* is not alive.                                                           *)
Stopped == keep_alive_thread = 0 \/ ~IsAlive(keep_alive_thread)

(* A step of stop_keep_alive called on its own: its entry, or the step     *)
(* that follows the test of the thread.                                    *)
StopStep(r) ==
    \/ rpc[r] = "idle" /\ rpc'[r] = "check" /\ rop'[r] = "stop"
    \/ rpc[r] = "check" /\ rop[r] = "stop" /\ rpc'[r] # "check"

(* C11: stop_keep_alive called while the watchdog is stopped returns       *)
(* success, starts nothing and leaves the watchdog and the stored          *)
(* configuration unchanged; every stop leaves the watchdog stopped, so a   *)
(* second stop in a row is such a call.                                    *)
C11_StopIdempotent ==
    /\ [][\A r \in Requests :
             (Stopped /\ StopStep(r)) =>
                 /\ UNCHANGED <<keep_alive_thread, keep_alive_stop_event, evset,
                                wpc, wev, wtarget, fs, ino>>
                 /\ rpc[r] = "check" => (rpc'[r] = "idle" /\ rret'[r] = TRUE)]_vars
    /\ [](\A r \in Requests : (rop[r] = "stop" /\ rpc[r] = "idle") => Stopped)

(* A stop is under way right after a stop that ended a started worker. *)
C11_Witness ==
    /\ rop[1] = "stop"
    /\ rpc[1] = "check"
    /\ keep_alive_thread = 0
    /\ wpc[1] = "done"
    /\ rret[1] = TRUE

(* C12: whenever start_keep_alive has returned success with interval i,    *)
(* the stored configuration has keep_alive_enabled = true and              *)
(* keep_alive_interval = i.                                                *)
C12_EnablePersisted ==
    \A r \in Requests :
        (rop[r] = "start" /\ rpc[r] = "idle" /\ rret[r] = TRUE) =>
            LET stored == LoadSettings(DiskFile)
            IN  /\ stored["keep_alive_enabled"] = Bool(TRUE)
                /\ stored["keep_alive_interval"] = Num(rloc[r].interval)

(* Both clients have made one update each and both calls have returned. *)
BothUpdated ==
    \A w \in Writers : pc[w] = "idle" /\ op[w] = "update" /\ calls[w] = 1

(* C13: after two concurrent updates the stored document is the complete   *)
(* merged document of one of them, a call that reported success; when      *)
(* neither reported success the file is as one of them found it.           *)
C13_LastWriterWins ==
    BothUpdated =>
        \/ \E w \in Writers :
              /\ result[w] = "ok"
              /\ DiskFile = [exists |-> TRUE, data |-> JsonDump(doc[w])]
        \/ /\ \A w \in Writers : result[w] = "fail"
           /\ \E w \in Writers : DiskFile = before[w]

(* C14: within one tick the SNMP query is tried first, the TCP probe only  *)
(* after the query failed, the connection through the printer URI only     *)
(* after both failed; the tick succeeds with the first strategy that       *)
(* succeeds and nothing is tried after it.                                 *)
C14_FallbackOrder ==
    \A w \in Workers :
        /\ wpc[w] = "tcp" =>
              tick[w] = [tried |-> <<"snmp">>, outcome |-> "running"]
        /\ wpc[w] = "backend" =>
              tick[w] = [tried |-> <<"snmp", "tcp">>, outcome |-> "running"]
        /\ tick[w].outcome = "success" =>
              /\ wpc[w] = "sleep"
              /\ cf[w] = 0
              /\ tick[w].tried \in {<<"snmp">>, <<"snmp", "tcp">>,
                                    <<"snmp", "tcp", "backend">>}
        /\ tick[w].outcome = "failure" =>
              tick[w].tried = <<"snmp", "tcp", "backend">>

(* The TCP probe succeeded after the SNMP query failed. *)
C14_Witness ==
    /\ wpc[1] = "sleep"
    /\ tick[1] = [tried |-> <<"snmp", "tcp">>, outcome |-> "success"]

(* The tick that just ended was a failed one. *)
TickFailed(w) == IsAlive(w) /\ tick[w].outcome \in {"failure", "exception"}

(* C15: a failed tick does not end the worker: the worker leaves its loop  *)
(* only when its stop signal is set, is still running after a failed tick, *)
(* and, unless it is stopped, goes from its backoff wait to the next       *)
(* probe.                                                                  *)
C15_FailureIsolation ==
    [][\A w \in Workers :
          /\ (wpc[w] # "done" /\ wpc'[w] = "done") => IsSet(wev[w])
          /\ (TickEnds(w) /\ tick'[w].outcome # "success") => TickFailed(w)'
          /\ (wpc[w] = "backoff" /\ wpc'[w] # "backoff" /\ ~IsSet(wev[w])) =>
                 wpc'[w] = "snmp"]_vars

(* A save or update that met an I/O error has returned. *)
FailedOnIO(w) == Returned(w) /\ fault[w]

(* C16 as stated: after an I/O failure during save the call has returned   *)
(* failure, the temporary file does not exist and the destination file is  *)
(* unchanged.                                                              *)
C16_IOFailureAsStated ==
    \A w \in Writers :
        FailedOnIO(w) =>
            /\ result[w] = "fail"
            /\ fs[TempFilePath] = 0
            /\ DiskFile = before[w]

(* C16, amended: after an I/O failure during save the call has returned    *)
(* failure and the destination file is unchanged; the temporary file does  *)
(* not exist unless its removal failed as well.                            *)
C16_IOFailure ==
    \A w \in Writers :
        FailedOnIO(w) =>
            /\ result[w] = "fail"
            /\ DiskFile = before[w]
            /\ fs[TempFilePath] # 0 => rm_err[w]

(* A save over an existing file failed and its temporary file is gone. *)
C16_Witness ==
    /\ FailedOnIO(1)
    /\ op[1] = "save"
    /\ before[1].exists
    /\ result[1] = "fail"
    /\ fs[TempFilePath] = 0
    /\ ~rm_err[1]

(* In a document, keep-alive enabled comes with an interval of at least 10 *)
(* and a printer address of the network transport.                         *)
KeepAliveConsistent(d) ==
    ("keep_alive_enabled" \in DOMAIN d /\ d["keep_alive_enabled"] = Bool(TRUE)) =>
        /\ "keep_alive_interval" \in DOMAIN d
        /\ d["keep_alive_interval"].t = "num"
        /\ d["keep_alive_interval"].n >= 10
        /\ "printer_uri" \in DOMAIN d
        /\ GuessBackend(d["printer_uri"].s) = "network"

(* C17: a save or update is accepted with keep_alive_enabled = true only   *)
(* with an interval of at least 10 and a network printer address, and the  *)
(* document stored by a successful save has the same property.             *)
C17_KeepAliveValidation ==
    \A w \in Writers :
        (Returned(w) /\ result[w] = "ok") =>
            /\ KeepAliveConsistent(doc[w])
            /\ DiskFile.exists
            /\ JsonLoad(DiskFile.data).ok
            /\ KeepAliveConsistent(JsonLoad(DiskFile.data).v)

(* A save_settings(get_settings()) that followed a successful save has    *)
(* returned; base is what get_settings returned before it.                *)
Resaved(w) == Returned(w) /\ op[w] = "save" /\ base[w] # EmptyMap

(* C18, as stated: after a successful save, save(load()) succeeds too and  *)
(* load() returns the same configuration before and after it.              *)
C18_IdempotentAsStated ==
    \A w \in Writers :
        Resaved(w) =>
            /\ result[w] = "ok"
            /\ LoadSettings(DiskFile) = base[w]

(* C18, amended: after a successful save, save(load()) succeeds unless the *)
(* write meets an I/O error, and load() returns the same configuration     *)
(* before and after it in either case.                                     *)
C18_Idempotent ==
    \A w \in Writers :
        Resaved(w) =>
            /\ ~fault[w] => result[w] = "ok"
            /\ LoadSettings(DiskFile) = base[w]

(* A stored document without the optional keys was loaded and saved again: *)
(* the file now holds the defaults too, and loads as it did before.        *)
C18_Witness ==
    /\ Resaved(1)
    /\ result[1] = "ok"
    /\ before[1].data = JsonDump(MinimalSettings)
    /\ DiskFile.data # before[1].data
    /\ LoadSettings(DiskFile) = base[1]

(***************************************************************************)
(* Properties of the text label.                                           *)
(***************************************************************************)
Sum(f, n) == LET RECURSIVE S(_)
                 S(k) == IF k = 0 THEN 0 ELSE f[k] + S(k - 1)
             IN  S(n)

(* C19: every line drawn, of measured width w, starts at x = 10 for left   *)
(* alignment, at (696 - w)/2 rounded down for center and at 696 - w - 10   *)
(* for right; an unrecognised alignment is drawn as left; and the text     *)
(* "Hello<br>World" is split into exactly 2 lines.                         *)
C19_HorizontalOffset ==
    /\ \A k \in 1..Len(drawn) :
          LET w == line_metrics[k].line_width
          IN  drawn[k].x = CASE alignment = "left"   -> 10
                             [] alignment = "center" -> (696 - w) \div 2
                             [] alignment = "right"  -> 696 - w - 10
                             [] OTHER                -> 10
    /\ (html_text = <<"Hello", "<br>", "World">> /\ lpc # "parse") =>
          lines = <<"Hello", "World">>

(* "Hello<br>World", right-aligned, was drawn as two lines, one of them    *)
(* wider than the canvas.                                                  *)
C19_Witness ==
    /\ lpc = "done"
    /\ html_text = <<"Hello", "<br>", "World">>
    /\ alignment = "right"
    /\ Len(drawn) = 2
    /\ line_metrics[1].line_width = 300
    /\ line_metrics[2].line_width = 701
    /\ drawn[1].x = 386
    /\ drawn[2].x = 0 - 15

(* C20: the image of n >= 1 lines is 20 + sum of the line heights +        *)
(* 5 * (n - 1) high, and each line is drawn at y = 10 + the sum of         *)
(* (height + 5) of the lines above it.                                     *)
C20_ImageHeight ==
    LET n == Len(line_metrics)
        h == [k \in 1..n |-> line_metrics[k].line_height]
    IN  /\ (lpc \in {"draw", "done"} /\ n >= 1) =>
              image_height = 20 + Sum(h, n) + 5 * (n - 1)
        /\ \A k \in 1..Len(drawn) :
              drawn[k].y = 10 + Sum([j \in 1..n |-> h[j] + 5], k - 1)

(***************************************************************************)
(* Further properties of the configuration store.                          *)
(***************************************************************************)
(* C23: what a load returns, and what an update merges into, is the        *)
(* document that was on disk when the call was made, overlaid on the       *)
(* defaults, whatever earlier calls of the same client read or wrote and   *)
(* whoever wrote the file in between.                                      *)
C23_NoCachedSettings ==
    \A w \in Writers :
        /\ (pc[w] = "idle" /\ op[w] = "load") => loaded[w] = LoadSettings(before[w])
        /\ op[w] = "update" => base[w] = LoadSettings(before[w])

(* The second call of client 1 is a load that returns the font size the    *)
(* other client stored, not the one of the initial file.                   *)
C23_Witness ==
    /\ pc[1] = "idle"
    /\ op[1] = "load"
    /\ calls[1] = 2
    /\ op[2] = "update"
    /\ arg[2] = [font_size |-> Num(30)]
    /\ result[2] = "ok"
    /\ calls[2] = 1
    /\ loaded[1]["font_size"] = Num(30)
    /\ loaded[1]["printer_model"] = Str("QL-800")

(* A value that carries nothing: null, a blank string, an empty list or    *)
(* an empty mapping.                                                       *)
IsEmptyValue(v) ==
    \/ v.t = "null"
    \/ v.t = "str" /\ IsBlank(v.s)
    \/ v.t = "list" /\ v.l = <<>>
    \/ v.t = "dict" /\ DOMAIN v.m = {}

(* The profiles list of a document, when present, is non-empty and every   *)
(* profile has its four required fields, none of them empty.               *)
ProfilesComplete(d) ==
    "printers" \in DOMAIN d =>
        /\ d["printers"].t = "list"
        /\ d["printers"].l # <<>>
        /\ \A i \in 1..Len(d["printers"].l) :
              LET profile == d["printers"].l[i]
              IN  /\ profile.t = "dict"
                  /\ \A field \in {"id", "printer_uri", "printer_model", "label_size"} :
                        /\ field \in DOMAIN profile.m
                        /\ ~IsEmptyValue(profile.m[field])

(* C27: a save or update that is accepted carries, when it has a profiles  *)
(* list, a non-empty list whose profiles all have the four required fields *)
(* present and non-empty, and so does the document it stored.              *)
C27_ProfilesValidation ==
    \A w \in Writers :
        (Returned(w) /\ result[w] = "ok") =>
            /\ ProfilesComplete(doc[w])
            /\ DiskFile.exists
            /\ ProfilesComplete(JsonLoad(DiskFile.data).v)

(* C25: a request to the update-configuration operation that carries only  *)
(* some of the keys, and whose merge over the stored configuration is      *)
(* valid, is accepted and changes exactly the keys it carries (unless the  *)
(* write meets an I/O error).                                              *)
C25_PartialUpdate ==
    \A w \in Writers :
        LET stored == LoadSettings(before[w])
            now == LoadSettings(DiskFile)
        IN  (/\ pc[w] = "idle"
             /\ op[w] = "api_update"
             /\ ~fault[w]
             /\ ValidateSettings(Merge(stored, arg[w]))) =>
                /\ ApiResponse(w) = "success"
                /\ \A k \in DOMAIN now :
                      now[k] = IF k \in DOMAIN arg[w] THEN arg[w][k] ELSE stored[k]

(***************************************************************************)
(* Further properties of the watchdog.                                     *)
(***************************************************************************)
(* "running" of get_keep_alive_status. *)
StatusRunning == keep_alive_thread # 0 /\ IsAlive(keep_alive_thread)

(* "enabled" of get_keep_alive_status. *)
StatusEnabled == LoadSettings(DiskFile)["keep_alive_enabled"] = Bool(TRUE)

(* C24: whenever the requests made so far have all completed, a watchdog   *)
(* worker is running if and only if the stored keep_alive_enabled is true. *)
C24_RunningIffEnabled ==
    (\A r \in Requests : rpc[r] = "idle") => (StatusRunning <=> StatusEnabled)

(* C28: a tick in which all three probes failed is logged at error while   *)
(* the failure counter (after its increment) is at most 3, and at warning  *)
(* once it exceeds 3; the counter keeps incrementing.                      *)
C28_LogSeverity ==
    \A w \in Workers :
        (IsAlive(w) /\ tick[w].outcome = "failure") =>
            log_level[w] = IF cf[w] <= 3 THEN "error" ELSE "warning"

(***************************************************************************)
(* The raw connection probe of the keep-alive worker.  A printer URI is a  *)
(* sequence of pieces: the scheme "tcp://" (six characters), the host, and *)
(* after each ":" the text that follows it.                                *)
(***************************************************************************)

PrinterUris == {<<"tcp://", "10.0.0.5">>,
                <<"tcp://", "10.0.0.5", ":", "9100">>,
                <<"tcp://", "10.0.0.5", ":", "9101">>,
                <<"tcp://", "10.0.0.5", ":", "515">>,
                <<"tcp://", "10.0.0.5", ":", "lpd">>}

(* The ports a connection is attempted to, and what connect_ex does there. *)
Ports == {9100, 515, 631, 9101}

ConnectOutcomes == {"open", "refused", "raises"}

(* ":" in ip_address *)
HasColon(ip_address) == \E i \in 1..Len(ip_address) : ip_address[i] = ":"

(* ip_address.split(":") *)
RECURSIVE SplitColonFrom(_, _, _, _)
SplitColonFrom(ip_address, i, done, current) ==
    IF i > Len(ip_address) THEN Append(done, current)
    ELSE IF ip_address[i] = ":"
    THEN SplitColonFrom(ip_address, i + 1, Append(done, current), "")
    ELSE SplitColonFrom(ip_address, i + 1, done, current \o ip_address[i])

SplitColon(ip_address) == SplitColonFrom(ip_address, 1, <<>>, "")

(* int(ip_parts[1]): the strings it converts, a ValueError for the others. *)
IntOf(text) ==
    CASE text = "9100" -> 9100
      [] text = "9101" -> 9101
      [] text = "515" -> 515
      [] text = "631" -> 631
      [] OTHER -> -1

(* _extract_ip_from_uri: printer_uri[6:], then the part before the first ":". *)
ExtractIpFromUri(printer_uri) ==
    IF printer_uri # <<>> /\ printer_uri[1] = "tcp://"
    THEN LET ip_address == Tail(printer_uri)
         IN  IF HasColon(ip_address)
             THEN <<SplitColon(ip_address)[1]>>
             ELSE ip_address
    ELSE printer_uri

(* port = 9100; if ":" in ip_address: port = int(ip_parts[1]), kept at 9100 *)
(* on a ValueError or IndexError.                                          *)
SpecificPort(ip_address) ==
    IF HasColon(ip_address)
    THEN LET ip_parts == SplitColon(ip_address)
         IN  IF Len(ip_parts) >= 2 /\ IntOf(ip_parts[2]) # -1
             THEN IntOf(ip_parts[2]) ELSE 9100
    ELSE 9100

(* printer_ports = [9100, 515, 631]; printer_ports.remove(port) *)
AlternativePorts(port) == SelectSeq(<<9100, 515, 631>>, LAMBDA p : p # port)

(* The worker calls self._tcp_ping(ip_address) with the address extracted  *)
(* from the printer URI it was started with.                               *)
TcpPingEnter ==
    /\ probe.pc = "idle"
    /\ \E printer_uri \in PrinterUris, conn \in [Ports -> ConnectOutcomes] :
          LET ip_address == ExtractIpFromUri(printer_uri)
          IN  probe' = [pc |-> "specific", printer_uri |-> printer_uri,
                        ip_address |-> ip_address, port |-> SpecificPort(ip_address),
                        printer_ports |-> <<>>, attempts |-> <<>>, conn |-> conn,
                        result |-> FALSE]
    /\ UNCHANGED <<storeVars, wdVars, labelVars, qr, job>>

(* result = sock.connect_ex((ip_address, port)); an exception is logged. *)
TcpPingSpecific ==
    /\ probe.pc = "specific"
    /\ probe' = [probe EXCEPT
                   !.attempts = Append(@, probe.port),
                   !.result = probe.conn[probe.port] = "open",
                   !.printer_ports = AlternativePorts(probe.port),
                   !.pc = IF probe.conn[probe.port] = "open" THEN "done" ELSE "alternative"]
    /\ UNCHANGED <<storeVars, wdVars, labelVars, qr, job>>

(* for alt_port in printer_ports: ... except Exception: continue *)
TcpPingAlternative ==
    /\ probe.pc = "alternative"
    /\ IF probe.printer_ports = <<>>
       THEN probe' = [probe EXCEPT !.pc = "done", !.result = FALSE]
       ELSE LET alt_port == Head(probe.printer_ports)
            IN  probe' = [probe EXCEPT
                            !.attempts = Append(@, alt_port),
                            !.printer_ports = Tail(@),
                            !.result = probe.conn[alt_port] = "open",
                            !.pc = IF probe.conn[alt_port] = "open" THEN "done"
                                   ELSE "alternative"]
    /\ UNCHANGED <<storeVars, wdVars, labelVars, qr, job>>

(* return True / return False *)
TcpPingReturn ==
    /\ probe.pc = "done"
    /\ probe' = NoProbe
    /\ UNCHANGED <<storeVars, wdVars, labelVars, qr, job>>

ProbeInit == InitWith({[exists |-> TRUE, data |-> JsonDump(MinimalSettings)]})

ProbeNext ==
    \/ TcpPingEnter
    \/ TcpPingSpecific
    \/ TcpPingAlternative
    \/ TcpPingReturn

ProbeSpec == ProbeInit /\ [][ProbeNext]_vars

(* C26: the first connection attempt of the probe goes to the port the     *)
(* printer URI declares (9100 when it declares none); after a failure each *)
(* remaining port of 9100, 515, 631 is tried at most once, and the probe   *)
(* succeeds exactly when a connection on one of the ports succeeded.       *)
C26_ProbePorts ==
    (probe.pc \in {"alternative", "done"}) =>
        LET uri == probe.printer_uri
            declared == IF Len(uri) >= 4 /\ uri[3] = ":" /\ IntOf(uri[4]) # -1
                        THEN IntOf(uri[4]) ELSE 9100
            n == Len(probe.attempts)
        IN  /\ probe.attempts[1] = declared
            /\ \A i, j \in 1..n : probe.attempts[i] = probe.attempts[j] => i = j
            /\ \A i \in 2..n : probe.attempts[i] \in {9100, 515, 631}
            /\ probe.pc = "done" =>
                   (probe.result <=> \E i \in 1..n : probe.conn[probe.attempts[i]] = "open")

(***************************************************************************)
(* _create_qr_code: the QR code image and its composition with text.  A    *)
(* text is a sequence of pieces, a line break being the piece "\n"; the    *)
(* font metrics and the size of the generated symbol come from the         *)
(* libraries and are tabulated for the texts and symbols used here.        *)
(***************************************************************************)

padding == 20

side_line_spacing == 10

MaxQrLines == 2

QrLineTexts == {"Hi", "A long line of text"}

(* Texts of up to MaxQrLines lines, with or without a trailing line break. *)
QrTexts ==
    {<<>>, <<"\n">>}
    \cup {<<t>> : t \in QrLineTexts}
    \cup {<<t, "\n">> : t \in QrLineTexts}
    \cup (IF MaxQrLines >= 2
          THEN {<<t, "\n", u>> : t \in QrLineTexts, u \in QrLineTexts} ELSE {})
    \cup (IF MaxQrLines >= 3
          THEN {<<t, "\n", u, "\n", t>> : t \in QrLineTexts, u \in QrLineTexts} ELSE {})

(* text_font_size of the settings. *)
FontSizes == {30, 240}

(* dummy_draw.textbbox((0, 0), line, font=font): (left, top, right,        *)
(* bottom), tabulated at size 30 and in proportion to the font size.       *)
TextBbox(line, text_font_size) ==
    LET k == text_font_size \div 30
        at30 == CASE line = "" -> <<0, 0, 0, 0>>
                  [] line = "Hi" -> <<1, 7, 31, 29>>
                  [] line = "A long line of text" -> <<0, 7, 520, 36>>
                  [] OTHER -> <<0, 7, 551, 36>>
    IN  <<k * at30[1], k * at30[2], k * at30[3], k * at30[4]>>

(* side_text.split('\n') *)
RECURSIVE SplitNewlineFrom(_, _, _, _)
SplitNewlineFrom(side_text, i, done, current) ==
    IF i > Len(side_text) THEN Append(done, current)
    ELSE IF side_text[i] = "\n"
    THEN SplitNewlineFrom(side_text, i + 1, Append(done, current), "")
    ELSE SplitNewlineFrom(side_text, i + 1, done, current \o side_text[i])

SplitNewline(side_text) == SplitNewlineFrom(side_text, 1, <<>>, "")

(* Width of the square symbol qr.make_image returns: (17 + 4 * version +   *)
(* 2 * border) * box_size, for versions 6 and 9 with the default box size  *)
(* and border.                                                             *)
SymbolSizes == {490, 610}

(* qr_size of the settings; 0 stands for the values that are not truthy. *)
QrSizes == {0, 400}

(* int(current_height * ratio) with ratio = qr_size / current_width: the   *)
(* floating-point product falls short of qr_size for some sizes.           *)
ScaledHeight(current_height, qr_size) ==
    IF <<current_height, qr_size>> \in {<<610, 400>>}
    THEN qr_size - 1 ELSE qr_size

(* qr_img.size after "Resize QR code to desired size if specified". *)
QrImageSize(current_width, qr_size) ==
    IF qr_size # 0 /\ current_width # qr_size
    THEN <<qr_size, ScaledHeight(current_width, qr_size)>>
    ELSE <<current_width, current_width>>

(* text_metrics: one (bbox, line_width, line_height) per line. *)
TextMetrics(side_text_lines, text_font_size) ==
    [i \in 1..Len(side_text_lines) |->
        LET bbox == TextBbox(side_text_lines[i], text_font_size)
        IN  [bbox |-> bbox, line_width |-> bbox[3] - bbox[1],
             line_height |-> bbox[4] - bbox[2]]]

(* max_text_width = max(max_text_width, line_width) over the first n lines. *)
RECURSIVE MaxTextWidth(_, _)
MaxTextWidth(text_metrics, n) ==
    IF n = 0 THEN 0
    ELSE Max(MaxTextWidth(text_metrics, n - 1), text_metrics[n].line_width)

(* total_text_height += line_height + line_spacing over the first n lines. *)
RECURSIVE TextHeight(_, _)
TextHeight(text_metrics, n) ==
    IF n = 0 THEN 0
    ELSE TextHeight(text_metrics, n - 1) + text_metrics[n].line_height + side_line_spacing

TotalWidthUnclamped(qr_width, max_text_width) ==
    qr_width + max_text_width + padding * 3

(* total_width = max(qr_width + max_text_width + padding * 3, 696) *)
TotalWidth(qr_width, max_text_width) ==
    Max(qr_width + max_text_width + padding * 3, 696)

TextAreaWidthHalf(total_width) == total_width \div 2 - padding * 2

(* text_area_width = int(total_width * 2/3) - padding * 2 *)
TextAreaWidth(total_width) == (total_width * 2) \div 3 - padding * 2

(* if side_by_side and side_text: the combined image. *)
SideBySide(settings, qr_img) ==
    LET text_metrics == TextMetrics(SplitNewline(settings.side_text),
                                    settings.text_font_size)
        max_text_width == MaxTextWidth(text_metrics, Len(text_metrics))
        total_text_height == TextHeight(text_metrics, Len(text_metrics)) - side_line_spacing
        total_width == TotalWidth(qr_img[1], max_text_width)
        text_area_width == TextAreaWidth(total_width)
        qr_area_width == total_width - text_area_width - padding * 3
        qr_width == qr_area_width
        qr_height == qr_area_width
        new_height == Max(qr_height, total_text_height) + padding * 2
        qr_x == IF settings.qr_position = "left" THEN padding
                ELSE text_area_width + padding * 2
        text_area_x == IF settings.qr_position = "left" THEN qr_area_width + padding * 2
                       ELSE padding
        qr_y == (new_height - qr_height) \div 2
        text_y == (new_height - total_text_height) \div 2
        text_x(m) == IF settings.text_alignment = "center"
                     THEN text_area_x + (text_area_width - m.line_width) \div 2
                     ELSE IF settings.text_alignment = "right"
                     THEN text_area_x + text_area_width - m.line_width
                     ELSE text_area_x
    IN  [pc |-> "done", raised |-> "none", layout |-> "side_by_side",
         settings |-> settings,
         size |-> <<total_width, new_height>>,
         qr_box |-> [x |-> qr_x, y |-> qr_y, width |-> qr_width, height |-> qr_height],
         text_area |-> [x |-> text_area_x, width |-> text_area_width],
         text_height |-> total_text_height,
         text_y |-> text_y,
         drawn |-> [i \in 1..Len(text_metrics) |->
                      [x |-> text_x(text_metrics[i]),
                       y |-> text_y + TextHeight(text_metrics, i - 1),
                       bbox |-> text_metrics[i].bbox]]]

(* elif show_text and text: the text above or below the QR code. *)
Stacked(settings, qr_img) ==
    LET qr_width == qr_img[1]
        qr_height == qr_img[2]
        bbox == TextBbox(Join(settings.text), settings.text_font_size)
        text_width == bbox[3] - bbox[1]
        text_height == bbox[4] - bbox[2]
        new_height == qr_height + text_height + padding
        x == IF settings.text_alignment = "center" THEN (qr_width - text_width) \div 2
             ELSE IF settings.text_alignment = "right" THEN qr_width - text_width - 10
             ELSE 10
        top == settings.text_position = "top"
    IN  [pc |-> "done", raised |-> "none", layout |-> "stacked",
         settings |-> settings,
         size |-> <<qr_width, new_height>>,
         qr_box |-> [x |-> 0, y |-> IF top THEN text_height + padding ELSE 0,
                     width |-> qr_width, height |-> qr_height],
         text_area |-> [x |-> 0, width |-> qr_width],
         text_height |-> text_height,
         text_y |-> IF top THEN padding \div 2 ELSE qr_height + padding \div 2,
         drawn |-> <<[x |-> x,
                      y |-> IF top THEN padding \div 2 ELSE qr_height + padding \div 2,
                      bbox |-> bbox]>>]

(* Neither branch: the QR code image as it is. *)
Plain(settings, qr_img) ==
    [pc |-> "done", raised |-> "none", layout |-> "plain",
     settings |-> settings,
     size |-> qr_img,
     qr_box |-> [x |-> 0, y |-> 0, width |-> qr_img[1], height |-> qr_img[2]],
     text_area |-> [x |-> 0, width |-> 0],
     text_height |-> 0,
     text_y |-> 0,
     drawn |-> <<>>]

(* except Exception as e: raise ImageProcessingError(...) *)
QrRaised(settings, cause) ==
    [pc |-> "done", raised |-> "ImageProcessingError", layout |-> "none",
     cause |-> cause,
     settings |-> settings,
     size |-> <<0, 0>>,
     qr_box |-> [x |-> 0, y |-> 0, width |-> 0, height |-> 0],
     text_area |-> [x |-> 0, width |-> 0],
     text_height |-> 0,
     text_y |-> 0,
     drawn |-> <<>>]

(* The call _create_qr_code(data, settings); lib tells the size of the     *)
(* symbol generated and whether qrcode or ImageFont.truetype raise.        *)
CreateQrCodeResult(settings, lib) ==
    IF lib.qr_fails THEN QrRaised(settings, "qrcode")
    ELSE LET qr_img == QrImageSize(lib.symbol, settings.qr_size)
         IN  IF settings.side_by_side /\ settings.side_text # <<>>
             THEN IF lib.font_fails THEN QrRaised(settings, "font")
                  ELSE SideBySide(settings, qr_img)
             ELSE IF settings.show_text /\ settings.text # <<>>
             THEN IF lib.font_fails THEN QrRaised(settings, "font")
                  ELSE Stacked(settings, qr_img)
             ELSE Plain(settings, qr_img)

QrSettings ==
    [side_by_side : BOOLEAN, side_text : QrTexts,
     qr_position : {"left", "right", "middle"},
     show_text : BOOLEAN, text : {<<>>} \cup {<<t>> : t \in QrLineTexts},
     text_position : {"top", "bottom", "none"},
     text_alignment : {"left", "center", "right"},
     text_font_size : FontSizes,
     qr_size : QrSizes]

QrLibs ==
    {lib \in [symbol : SymbolSizes, qr_fails : BOOLEAN, font_fails : BOOLEAN] :
        ~(lib.qr_fails /\ lib.font_fails)}

CreateQrCode ==
    /\ qr.pc = "idle"
    /\ \E settings \in QrSettings, lib \in QrLibs : qr' = CreateQrCodeResult(settings, lib)
    /\ UNCHANGED <<storeVars, wdVars, labelVars, probe, job>>

(* return image_path, or the exception propagates to the caller. *)
CreateQrCodeReturn ==
    /\ qr.pc = "done"
    /\ qr' = NoQr
    /\ UNCHANGED <<storeVars, wdVars, labelVars, probe, job>>

QrInit == InitWith({[exists |-> TRUE, data |-> JsonDump(MinimalSettings)]})

QrNext ==
    \/ CreateQrCode
    \/ CreateQrCodeReturn

QrSpec == QrInit /\ [][QrNext]_vars

(* C21: a side-by-side image is at least 696 wide; the QR region lies left *)
(* of the text column for qr_position "left" and right of it for "right"   *)
(* or any other value.                                                     *)
C21_SideBySidePlacement ==
    (qr.pc = "done" /\ qr.layout = "side_by_side") =>
        /\ qr.size[1] >= 696
        /\ qr.settings.qr_position = "left" =>
               qr.qr_box.x + qr.qr_box.width <= qr.text_area.x
        /\ qr.settings.qr_position # "left" =>
               qr.text_area.x + qr.text_area.width <= qr.qr_box.x
        /\ qr.qr_box.x >= 0 /\ qr.text_area.x >= 0
        /\ qr.qr_box.x + qr.qr_box.width <= qr.size[1]
        /\ qr.text_area.x + qr.text_area.width <= qr.size[1]

(* A side-by-side image wider than the minimum, with the QR code on the    *)
(* left because qr_position says so.                                       *)
C21_Witness ==
    /\ qr.pc = "done" /\ qr.layout = "side_by_side"
    /\ qr.settings.qr_position = "left"
    /\ qr.size[1] > 696
    /\ qr.qr_box.x < qr.text_area.x

C30_StackedComposition ==
    (qr.pc = "done" /\ qr.layout = "stacked") =>
        LET W == qr.size[1]
            H == qr.size[2]
            t == qr.drawn[1]
            text_left == t.x + t.bbox[1]
            text_right == t.x + t.bbox[3]
            text_top == t.y + t.bbox[2]
            text_bottom == t.y + t.bbox[4]
        IN  /\ H = qr.qr_box.height + (t.bbox[4] - t.bbox[2]) + 20
            /\ W >= Max(qr.qr_box.width, t.bbox[3] - t.bbox[1])
            /\ qr.qr_box.x >= 0 /\ qr.qr_box.x + qr.qr_box.width <= W
            /\ qr.qr_box.y >= 0 /\ qr.qr_box.y + qr.qr_box.height <= H
            /\ text_left >= 0 /\ text_right <= W
            /\ text_top >= 0 /\ text_bottom <= H
            /\ IF qr.settings.text_position = "top"
               THEN text_bottom <= qr.qr_box.y
               ELSE qr.qr_box.y + qr.qr_box.height <= text_top

(***************************************************************************)
(* print_text and print_qr_code: create the image, rotate it, send it to   *)
(* the printer; every exception is caught by the operation's handler.      *)
(***************************************************************************)

PrintOperations == {"print_text", "print_qr_code"}

(* settings.get("rotate", 0) *)
Rotations == {0, 90}

(* What _send_to_printer meets: nothing, a missing setting (ValueError) or *)
(* an error of the printer backend.                                        *)
SendOutcomes == {"ok", "ValueError", "backend"}

(* An exception reaches the handler at the end of the operation. *)
Caught(exception, cause) ==
    [job EXCEPT !.pc = "except", !.caught = exception, !.cause = cause]

PrintEnter ==
    /\ job.pc = "idle"
    /\ qr.pc = "idle"
    /\ \E operation \in PrintOperations, rotate \in Rotations :
          job' = [pc |-> "create", operation |-> operation, rotate |-> rotate,
                  caught |-> "none", cause |-> "none", raised |-> "none",
                  success |-> FALSE]
    /\ UNCHANGED <<storeVars, wdVars, labelVars, probe, qr>>

(* image_path = self._create_text_label(text, settings); an exception in   *)
(* it is raised as ImageProcessingError("Error creating text label: ..."). *)
PrintCreateTextLabel(font_fails) ==
    /\ job.pc = "create"
    /\ job.operation = "print_text"
    /\ job' = IF font_fails THEN Caught("ImageProcessingError", "font")
              ELSE [job EXCEPT !.pc = "rotate"]
    /\ UNCHANGED <<storeVars, wdVars, labelVars, probe, qr>>

(* image_path = self._create_qr_code(data, settings) *)
PrintCreateQrCode ==
    /\ job.pc = "create"
    /\ job.operation = "print_qr_code"
    /\ \E settings \in QrSettings, lib \in QrLibs : qr' = CreateQrCodeResult(settings, lib)
    /\ job' = [job EXCEPT !.pc = "created"]
    /\ UNCHANGED <<storeVars, wdVars, labelVars, probe>>

(* _create_qr_code returned the path of the image, or raised. *)
PrintQrCodeCreated ==
    /\ job.pc = "created"
    /\ qr.pc = "done"
    /\ qr' = NoQr
    /\ job' = IF qr.raised # "none" THEN Caught(qr.raised, qr.cause)
              ELSE [job EXCEPT !.pc = "rotate"]
    /\ UNCHANGED <<storeVars, wdVars, labelVars, probe>>

(* if rotate != 0: image_path = self._apply_rotation(image_path, rotate) *)
PrintRotate(rotation_fails) ==
    /\ job.pc = "rotate"
    /\ job.rotate = 0 => ~rotation_fails
    /\ job' = IF job.rotate # 0 /\ rotation_fails
              THEN Caught("ImageProcessingError", "rotation")
              ELSE [job EXCEPT !.pc = "send"]
    /\ UNCHANGED <<storeVars, wdVars, labelVars, probe, qr>>

(* self._send_to_printer(image_path, settings): every exception in it is   *)
(* raised as PrinterError("Error sending to printer: ...").                *)
PrintSend(outcome) ==
    /\ job.pc = "send"
    /\ job' = IF outcome = "ok" THEN [job EXCEPT !.pc = "done", !.success = TRUE]
              ELSE Caught("PrinterError", outcome)
    /\ UNCHANGED <<storeVars, wdVars, labelVars, probe, qr>>

(* except Exception as e: raise PrinterError(f"Error printing ...: {str(e)}") *)
PrintExcept ==
    /\ job.pc = "except"
    /\ job' = [job EXCEPT !.pc = "done", !.raised = "PrinterError"]
    /\ UNCHANGED <<storeVars, wdVars, labelVars, probe, qr>>

(* The operation returns its result or the exception leaves it. *)
PrintReturn ==
    /\ job.pc = "done"
    /\ job' = NoJob
    /\ UNCHANGED <<storeVars, wdVars, labelVars, probe, qr>>

PrintInit == InitWith({[exists |-> TRUE, data |-> JsonDump(MinimalSettings)]})

PrintNext ==
    \/ PrintEnter
    \/ \E font_fails \in BOOLEAN : PrintCreateTextLabel(font_fails)
    \/ PrintCreateQrCode
    \/ PrintQrCodeCreated
    \/ \E rotation_fails \in BOOLEAN : PrintRotate(rotation_fails)
    \/ \E outcome \in SendOutcomes : PrintSend(outcome)
    \/ PrintExcept
    \/ PrintReturn

PrintSpec == PrintInit /\ [][PrintNext]_vars

(* C22: a failure of the font metrics or of the QR code generation while   *)
(* an image is rendered reaches the caller as an ImageProcessingError, not *)
(* as a PrinterError, also when the rendering is part of print_text or     *)
(* print_qr_code.                                                          *)
C22_RenderFailureKind ==
    /\ (qr.pc = "done" /\ qr.raised # "none") => qr.raised = "ImageProcessingError"
    /\ (job.pc = "done" /\ job.cause \in {"font", "qrcode"}) =>
           job.raised = "ImageProcessingError"

(***************************************************************************)
(* Further properties of the text label.                                   *)
(***************************************************************************)
(* C31: a text with n line breaks is split into n + 1 lines that keep the  *)
(* order of the text, empty lines included, and the lines are drawn in     *)
(* that order from the top down.                                           *)
C31_LineSplitting ==
    LET n == Cardinality({i \in 1..Len(html_text) : html_text[i] \in BrTags})
        runs == SelectSeq(html_text, LAMBDA t : t \notin BrTags \cup OtherTags)
    IN  /\ lpc \in {"measure", "draw", "done"} =>
              /\ Len(lines) = n + 1
              /\ Join(lines) = Join(runs)
        /\ lpc = "done" =>
              /\ Len(drawn) = Len(lines)
              /\ \A k \in 1..Len(drawn) : drawn[k].line_text = lines[k]
              /\ \A k \in 2..Len(drawn) : drawn[k - 1].y <= drawn[k].y

(***************************************************************************)
(* Further properties of the QR code image.                                *)
(***************************************************************************)
(* C32: in a side-by-side image every line of the text lies inside the     *)
(* text column, inside the image, and clear of the QR code.                *)
C32_TextInsideColumn ==
    (qr.pc = "done" /\ qr.layout = "side_by_side") =>
        \A k \in 1..Len(qr.drawn) :
            LET line_left == qr.drawn[k].x + qr.drawn[k].bbox[1]
                line_right == qr.drawn[k].x + qr.drawn[k].bbox[3]
            IN  /\ qr.text_area.x <= line_left
                /\ line_right <= qr.text_area.x + qr.text_area.width
                /\ 0 <= line_left /\ line_right <= qr.size[1]
                /\ \/ line_right <= qr.qr_box.x
                   \/ qr.qr_box.x + qr.qr_box.width <= line_left

(***************************************************************************)
(* Further properties of the watchdog's requests and workers.              *)
(***************************************************************************)
(* C33: when stop_keep_alive returns success no worker thread is alive,    *)
(* wherever in its tick the worker was when the stop was issued.           *)
C33_StopMeansTerminated ==
    [][\A r \in Requests :
          (rop[r] = "stop" /\ rpc[r] # "idle" /\ rpc'[r] = "idle" /\ rret'[r] = TRUE) =>
              \A w \in Workers : ~IsAlive(w)']_vars

(* C34: the timeout given to the backoff wait is never negative, and a     *)
(* worker that has failed starts its next tick only after it has waited    *)
(* at least the interval since the tick before.                            *)
C34_DelayAtLeastInterval ==
    [][\A w \in Workers :
          /\ (wpc[w] = "backoff" /\ ~BackoffOverflows(w)) =>
                BackoffTime(wtarget[w].interval, cf[w]) - wtarget[w].interval >= 0
          /\ (wpc[w] \in {"loop", "backoff"} /\ wpc'[w] = "snmp" /\ cf[w] >= 1) =>
                gap'[w] >= wtarget[w].interval]_vars


(***************************************************************************)
(* start_keep_alive on one request thread while another request thread     *)
(* calls SettingsService.update_settings.                                  *)
(***************************************************************************)
PersistUpdateInputs == {[font_size |-> Num(40)], [alignment |-> Str("center")]}

PersistNext ==
    \/ Created = {} /\ \E i \in Intervals : StartKeepAlive(1, i)
    \/ StopCheck(1)
    \/ NewStopEvent(1)
    \/ NewThread(1)
    \/ StartThread(1)
    \/ PersistKeepAlive(1)
    \/ calls[2] < MaxConcCalls /\ \E u \in PersistUpdateInputs : UpdateSettings(2, u)
    \/ OpenTemp(2)
    \/ WriteChunk(2)
    \/ FsyncClose(2)
    \/ ReplaceFile(2)
    \/ CleanupTemp(2)

PersistSpec == WatchdogSpecInit /\ [][PersistNext]_vars

(* C35: when start_keep_alive persists, every key of the stored            *)
(* configuration other than keep_alive_enabled and keep_alive_interval     *)
(* keeps the value it had on disk immediately before, also when another    *)
(* update completed after start_keep_alive read the settings.              *)
C35_OnlyKeepAliveKeys ==
    [][\A r \in Requests :
          (rop[r] = "start" /\ rpc[r] = "persist" /\ rpc'[r] = "idle") =>
              LET stored == LoadSettings(DiskFile)
                  written == LoadSettings(DiskFile)'
              IN  \A k \in (DOMAIN stored) \ {"keep_alive_enabled", "keep_alive_interval"} :
                     k \in DOMAIN written /\ written[k] = stored[k]]_vars


(* Further properties of the settings store. *)
(* C36: whatever save and update calls were made, accepted or rejected,    *)
(* the configuration _load_settings returns passes every validation rule;  *)
(* an update is rejected by validation only when the merged document, and  *)
(* not the stored one it was merged over, breaks a rule.                   *)
C36_LoadedAlwaysValid ==
    /\ ValidateSettings(LoadSettings(DiskFile))
    /\ \A w \in Writers :
          (op[w] = "update" /\ pc[w] = "idle" /\ result[w] = "fail" /\ ~fault[w]) =>
              /\ ValidateSettings(base[w])
              /\ ~ValidateSettings(doc[w])

C36_Witness ==
    /\ fs[SettingsFile] # 0
    /\ LoadSettings(DiskFile) # DEFAULT_SETTINGS
    /\ op[1] = "update" /\ pc[1] = "idle" /\ result[1] = "fail" /\ ~fault[1]
    /\ calls[1] >= 2


(***************************************************************************)
(* app.py: init_keep_alive, called once at start-up before the server      *)
(* accepts requests.  The stored configuration is read; when               *)
(* keep_alive_enabled is set, start_keep_alive is called with the stored   *)
(* printer_uri, printer_model and keep_alive_interval, and reads the       *)
(* settings again for an argument that is None.                            *)
(***************************************************************************)
InitKeepAliveDefaultArguments(r) ==
    /\ rpc[r] = "idle"
    /\ rop[r] = "none"
    /\ Created = {}
    /\ LET settings == LoadSettings(DiskFile)
       IN  IF ~("keep_alive_enabled" \in DOMAIN settings
                   /\ Truthy(settings["keep_alive_enabled"]))
           THEN /\ rop' = [rop EXCEPT ![r] = "init_keep_alive"]
                /\ rloc' = [rloc EXCEPT ![r] = NoLocals]
                /\ UNCHANGED <<rpc, rjoin, rret>>
           ELSE LET printer_uri == ResolveField(settings, "printer_uri")
                    printer_model == ResolveField(settings, "printer_model")
                IN  /\ rop' = [rop EXCEPT ![r] = "start"]
                    /\ rloc' = [rloc EXCEPT ![r] =
                                  [settings |-> settings, printer_uri |-> printer_uri,
                                   printer_model |-> printer_model, interval |-> 60,
                                   is_float |-> FALSE]]
                    /\ IF printer_uri = "" \/ printer_model = ""
                       THEN Return(r, FALSE)
                       ELSE /\ rpc' = [rpc EXCEPT ![r] = "check"]
                            /\ UNCHANGED <<rjoin, rret>>
    /\ UNCHANGED <<keep_alive_thread, keep_alive_stop_event, evset, wpc>>
    /\ ReqUnchanged
    /\ UNCHANGED <<storeVars, labelVars, callVars>>

(* settings.get(field) handed to start_keep_alive: None is resolved from   *)
(* the settings, any other value is used as it is.                         *)
StoredArgument(settings, field) ==
    IF field \notin DOMAIN settings \/ settings[field].t = "null"
    THEN ResolveField(settings, field)
    ELSE settings[field].s

InitKeepAlive(r) ==
    /\ rpc[r] = "idle"
    /\ rop[r] = "none"
    /\ Created = {}
    /\ LET settings == LoadSettings(DiskFile)
       IN  IF ~("keep_alive_enabled" \in DOMAIN settings
                   /\ Truthy(settings["keep_alive_enabled"]))
           THEN /\ rop' = [rop EXCEPT ![r] = "init_keep_alive"]
                /\ rloc' = [rloc EXCEPT ![r] = NoLocals]
                /\ UNCHANGED <<rpc, rjoin, rret>>
           ELSE LET printer_uri == StoredArgument(settings, "printer_uri")
                    printer_model == StoredArgument(settings, "printer_model")
                    interval == IF "keep_alive_interval" \in DOMAIN settings
                                THEN settings["keep_alive_interval"].n ELSE 60
                IN  /\ rop' = [rop EXCEPT ![r] = "start"]
                    /\ \E is_float \in BOOLEAN :
                          rloc' = [rloc EXCEPT ![r] =
                                     [settings |-> settings, printer_uri |-> printer_uri,
                                      printer_model |-> printer_model,
                                      interval |-> interval, is_float |-> is_float]]
                    /\ IF printer_uri = "" \/ printer_model = ""
                       THEN Return(r, FALSE)
                       ELSE /\ rpc' = [rpc EXCEPT ![r] = "check"]
                            /\ UNCHANGED <<rjoin, rret>>
    /\ UNCHANGED <<keep_alive_thread, keep_alive_stop_event, evset, wpc>>
    /\ ReqUnchanged
    /\ UNCHANGED <<storeVars, labelVars, callVars>>

(* Configurations the store can hold when the application starts: no file, *)
(* or a document that save_settings accepted.                              *)
LongIntervalSettings ==
    Merge(DEFAULT_SETTINGS, [keep_alive_enabled |-> Bool(TRUE),
                             keep_alive_interval |-> Num(400)])

StartupFiles ==
    { [exists |-> FALSE, data |-> <<>>],
      [exists |-> TRUE,  data |-> JsonDump(MinimalSettings)],
      [exists |-> TRUE,  data |-> JsonDump(UsbSettings)],
      [exists |-> TRUE,  data |-> JsonDump(EnableBody)],
      [exists |-> TRUE,  data |-> JsonDump(LongIntervalSettings)] }

StartupInit == InitWith(StartupFiles)

StartupNext ==
    \/ InitKeepAlive(1)
    \/ StopCheck(1)
    \/ NewStopEvent(1)
    \/ NewThread(1)
    \/ StartThread(1)
    \/ PersistKeepAlive(1)
    \/ WorkerStep(1)

StartupSpec == StartupInit /\ [][StartupNext]_vars

(* C37: at start-up a worker is started exactly when the stored            *)
(* configuration has keep_alive_enabled = true, and the worker runs with   *)
(* the stored printer_uri, printer_model and keep_alive_interval.          *)
C37_StartupFollowsStore ==
    LET stored == LoadSettings(DiskFile)
        enabled == stored["keep_alive_enabled"] = Bool(TRUE)
    IN  /\ \A w \in Workers :
              wpc[w] # "none" =>
                  /\ enabled
                  /\ wtarget[w].printer_uri = stored["printer_uri"].s
                  /\ wtarget[w].printer_model = stored["printer_model"].s
                  /\ wtarget[w].interval = stored["keep_alive_interval"].n
        /\ (rpc[1] = "idle" /\ rop[1] # "none") =>
              (enabled <=> \E w \in Workers : wpc[w] \notin {"none", "new"})

C37_Witness ==
    /\ rpc[1] = "idle" /\ rop[1] = "start"
    /\ wpc[1] = "snmp"
    /\ wtarget[1].interval = 400
    /\ wtarget[1].printer_uri = "tcp://192.168.1.100"


(***************************************************************************)
(* One worker from its start to its stop while the settings endpoint       *)
(* stores another printer address or another keep-alive interval.          *)
(***************************************************************************)
OtherPrinterBody ==
    [printer_uri |-> Str("tcp://10.0.0.9:9100"), printer_model |-> Str("QL-810W"),
     label_size |-> Str("29")]

OtherIntervalBody ==
    [printer_uri |-> Str("tcp://10.0.0.5:9100"), printer_model |-> Str("QL-820NWB"),
     label_size |-> Str("29"), keep_alive_interval |-> Num(120)]

TargetBodies == {OtherPrinterBody, OtherIntervalBody}

TargetNext ==
    \/ WorkerNext
    \/ \E body \in TargetBodies : SettingsEndpoint(1, body)

TargetSpec == ConfigInit /\ [][TargetNext]_vars

(* C38: a worker's printer address, model and interval are the values      *)
(* start_keep_alive held when it created the thread, and they stay the     *)
(* same in every later step, whatever configuration is stored meanwhile.   *)
C38_TargetFixedAtStart ==
    [][\A w \in Workers :
          /\ (wpc[w] = "none" /\ wpc'[w] # "none") =>
                \E r \in Requests :
                    /\ rop[r] = "start"
                    /\ wtarget'[w].printer_uri = rloc[r].printer_uri
                    /\ wtarget'[w].printer_model = rloc[r].printer_model
                    /\ wtarget'[w].interval = rloc[r].interval
          /\ wpc[w] # "none" => wtarget'[w] = wtarget[w]]_vars

C38_Witness ==
    /\ wpc[1] \in {"snmp", "tcp", "backend"}
    /\ rop[1] = "settings" /\ rret[1] = TRUE
    /\ LoadSettings(DiskFile)["printer_uri"].s # wtarget[1].printer_uri
    /\ LoadSettings(DiskFile)["keep_alive_interval"].n # wtarget[1].interval
    /\ tick[1].tried # <<>>

====
